---- MODULE Spec2Model ----
(***************************************************************************)
(* Model of the Stan front end of pynast: the scanner (src/src/scanner.py) *)
(* that turns a source string into a token list, and the recursive-descent *)
(* parser (src/nast/parsing.py) that turns a token list into a Program.    *)
(*                                                                         *)
(* A source string is a sequence of one-character strings.  Python's       *)
(* 0-based offsets are kept as they are in the code; source[i] of the code *)
(* is source[i + 1] here.                                                  *)
(***************************************************************************)
EXTENDS Integers, Sequences, FiniteSets, TLC

VARIABLES
    scanner,     \* the Scanner object: source, tokens, start, current, line, column
    scan_pc,     \* where scan_tokens is: "new", "loop", "returned", "raised"
    scan_exc,    \* the exception scan_tokens raised (NoExc when none)
    scan_calls,  \* number of scan_tokens calls made on this Scanner
    parser,      \* the Parser object: token_list, current (and exc once raised)
    parse_pc,    \* where the parser is: "none", "new", "match", a block loop,
                 \* "returned", "raised"
    turn,        \* which of the seven block keywords parse_program tests next
    blocks,      \* the seven locals of parse_program (functions, data, ...)
    frame,       \* declarations and statements of the block being parsed
    result       \* what the parser call returned

scan_vars == <<scanner, scan_pc, scan_exc, scan_calls>>

parse_vars == <<parser, parse_pc, turn, blocks, frame, result>>

vars == <<scanner, scan_pc, scan_exc, scan_calls,
          parser, parse_pc, turn, blocks, frame, result>>

(***************************************************************************)
(* Bounds of the model.                                                    *)
(***************************************************************************)
MaxPieces == 3      \* a generated source is at most this many fragments
MaxCalls == 2       \* calls of scan_tokens on one Scanner

(***************************************************************************)
(* Characters (str.isalpha, str.isdigit restricted to ASCII).              *)
(***************************************************************************)
Letters ==
    {"a", "b", "c", "d", "e", "f", "g", "h", "i", "j", "k", "l", "m",
     "n", "o", "p", "q", "r", "s", "t", "u", "v", "w", "x", "y", "z",
     "A", "B", "C", "D", "E", "F", "G", "H", "I", "J", "K", "L", "M",
     "N", "O", "P", "Q", "R", "S", "T", "U", "V", "W", "X", "Y", "Z"}

Digits == {"0", "1", "2", "3", "4", "5", "6", "7", "8", "9"}

isalpha(char) == char \in Letters

isdigit(char) == char \in Digits

DigitValue(char) ==
    CASE char = "0" -> 0 [] char = "1" -> 1 [] char = "2" -> 2
      [] char = "3" -> 3 [] char = "4" -> 4 [] char = "5" -> 5
      [] char = "6" -> 6 [] char = "7" -> 7 [] char = "8" -> 8
      [] char = "9" -> 9

\* int(literal) for a run of decimal digits
RECURSIVE int(_)
int(text) ==
    IF text = << >> THEN 0
    ELSE 10 * int(SubSeq(text, 1, Len(text) - 1)) + DigitValue(text[Len(text)])

\* what _peek returns past the end of the source ("\0")
NUL == "NUL"

(***************************************************************************)
(* Reserved keywords mapped to their token type.                           *)
(***************************************************************************)
STAN_KEYWORDS ==
    { << <<"f","u","n","c","t","i","o","n","s">>, "FUNCTIONBLOCK" >>,
      << <<"d","a","t","a">>, "DATABLOCK" >>,
      << <<"t","r","a","n","s","f","o","r","m","e","d"," ","d","a","t","a">>, "TRANSFORMEDDATABLOCK" >>,
      << <<"p","a","r","a","m","e","t","e","r","s">>, "PARAMETERSBLOCK" >>,
      << <<"t","r","a","n","s","f","o","r","m","e","d"," ","p","a","r","a","m","e","t","e","r","s">>, "TRANSFORMEDPARAMETERSBLOCK" >>,
      << <<"m","o","d","e","l">>, "MODELBLOCK" >>,
      << <<"g","e","n","e","r","a","t","e","d"," ","q","u","a","n","t","i","t","i","e","s">>, "GENERATEDQUANTITIESBLOCK" >>,
      << <<"r","e","t","u","r","n">>, "RETURN" >>,
      << <<"i","f">>, "IF" >>,
      << <<"e","l","s","e">>, "ELSE" >>,
      << <<"w","h","i","l","e">>, "WHILE" >>,
      << <<"p","r","o","f","i","l","e">>, "PROFILE" >>,
      << <<"f","o","r">>, "FOR" >>,
      << <<"i","n">>, "IN" >>,
      << <<"b","r","e","a","k">>, "BREAK" >>,
      << <<"c","o","n","t","i","n","u","e">>, "CONTINUE" >>,
      << <<"v","o","i","d">>, "VOID" >>,
      << <<"i","n","t">>, "INT" >>,
      << <<"r","e","a","l">>, "REAL" >>,
      << <<"c","o","m","p","l","e","x">>, "COMPLEX" >>,
      << <<"v","e","c","t","o","r">>, "VECTOR" >>,
      << <<"r","o","w","_","v","e","c","t","o","r">>, "ROWVECTOR" >>,
      << <<"a","r","r","a","y">>, "ARRAY" >>,
      << <<"m","a","t","r","i","x">>, "MATRIX" >>,
      << <<"o","r","d","e","r","e","d">>, "ORDERED" >>,
      << <<"p","o","s","i","t","i","v","e","_","o","r","d","e","r","e","d">>, "POSITIVEORDERED" >>,
      << <<"s","i","m","p","l","e","x">>, "SIMPLEX" >>,
      << <<"u","n","i","t","_","v","e","c","t","o","r">>, "UNITVECTOR" >>,
      << <<"c","h","o","l","e","s","k","y","_","f","a","c","t","o","r","_","c","o","r","r">>, "CHOLESKYFACTORCORR" >>,
      << <<"c","h","o","l","e","s","k","y","_","f","a","c","t","o","r","_","c","o","v">>, "CHOLESKYFACTORCOV" >>,
      << <<"c","o","r","r","_","m","a","t","r","i","x">>, "CORRMATRIX" >>,
      << <<"c","o","v","_","m","a","t","r","i","x">>, "COVMATRIX" >>,
      << <<"l","o","w","e","r">>, "LOWER" >>,
      << <<"u","p","p","e","r">>, "UPPER" >>,
      << <<"o","f","f","s","e","t">>, "OFFSET" >>,
      << <<"m","u","l","t","i","p","l","i","e","r">>, "MULTIPLIER" >>,
      << <<"i","n","c","r","e","m","e","n","t","_","l","o","g","_","p","r","o","b">>, "INCREMENTLOGPROB" >>,
      << <<"p","r","i","n","t">>, "PRINT" >>,
      << <<"r","e","j","e","c","t">>, "REJECT" >> }

KeywordTexts == {kw[1] : kw \in STAN_KEYWORDS}

KeywordType(text) == (CHOOSE kw \in STAN_KEYWORDS : kw[1] = text)[2]

\* kw.split(" ")[0]
FirstWord(text) ==
    IF \E i \in 1..Len(text) : text[i] = " "
    THEN SubSeq(text, 1,
                (CHOOSE i \in 1..Len(text) :
                    /\ text[i] = " "
                    /\ \A j \in 1..(i - 1) : text[j] # " ") - 1)
    ELSE text

\* {kw.split(" ")[0] for kw in STAN_KEYWORDS if " " in kw}
TwoWordPrefixes ==
    {FirstWord(text) : text \in {t \in KeywordTexts : \E i \in 1..Len(t) : t[i] = " "}}

(***************************************************************************)
(* Tokens and exceptions.                                                  *)
(***************************************************************************)
None == [kind |-> "None", int |-> 0, str |-> << >>]

IntLiteral(n) == [kind |-> "int", int |-> n, str |-> << >>]

StrLiteral(text) == [kind |-> "str", int |-> 0, str |-> text]

Token(ttype, line, column, lexeme, literal) ==
    [ttype |-> ttype, line |-> line, column |-> column,
     lexeme |-> lexeme, literal |-> literal]

NoExc == [type |-> "None", tagged |-> FALSE, line |-> 0, column |-> 0,
          message |-> << >>]

\* a reporter that raises the bare message, without the position prefix
throw_at_plain(line, column, message) ==
    [type |-> "RuntimeError", tagged |-> FALSE, line |-> 0,
     column |-> 0, message |-> message]

\* error.throw_at: raises RuntimeError("[line L, column C]: message")
throw_at(line, column, message) ==
    [type |-> "RuntimeError", tagged |-> TRUE, line |-> line,
     column |-> column, message |-> message]

\* raise ValueError(f"Unknown character '{char}'.")
UnknownCharacter(char) ==
    [type |-> "ValueError", tagged |-> FALSE, line |-> 0, column |-> 0,
     message |-> <<"Unknown character '", char, "'.">>]

\* the IndexError of self._source[self._current] past the end
StringIndexError ==
    [type |-> "IndexError", tagged |-> FALSE, line |-> 0, column |-> 0,
     message |-> <<"string index out of range">>]

(***************************************************************************)
(* The Scanner.  Its methods work on a record s with the object's fields   *)
(* and a field exc that holds the exception once one is raised; a method   *)
(* called on a record that already raised does nothing.                    *)
(***************************************************************************)
Scanner_init(source) ==
    [source |-> source, tokens |-> << >>, start |-> 0, current |-> 0,
     line |-> 1, column |-> 1, exc |-> NoExc]

Raised(s) == s.exc.type # "None"

Raise(s, exc) == IF Raised(s) THEN s ELSE [s EXCEPT !.exc = exc]

is_valid_string_literal_char(char) == char \notin {"\"", "\n", "\r"}

is_identifier_char(char, is_first_char) ==
    IF is_first_char /\ (isdigit(char) \/ char = "_")
    THEN FALSE
    ELSE isalpha(char) \/ isdigit(char) \/ char = "_"

Scanner_is_at_end(s, offset) == s.current + offset >= Len(s.source)

Scanner_peek(s) ==
    IF s.current >= Len(s.source) THEN NUL ELSE s.source[s.current + 1]

\* _pop_char: the character read is Scanner_peek(s) of the state before the call
Scanner_pop_char(s) ==
    IF Raised(s) THEN s
    ELSE IF s.current >= Len(s.source) THEN Raise(s, StringIndexError)
    ELSE [s EXCEPT !.current = @ + 1]

\* _match: whether it returns True, and the scanner after it
Scanner_match_ok(s, expected) ==
    \A i \in 1..Len(expected) :
        /\ ~Scanner_is_at_end(s, i - 1)
        /\ s.source[s.current + i] = expected[i]

\* a _match that advances by one character, however long `expected' is
Scanner_match_one(s, expected) ==
    IF Scanner_match_ok(s, expected)
    THEN [s EXCEPT !.current = @ + 1]
    ELSE s

Scanner_match(s, expected) ==
    IF Scanner_match_ok(s, expected)
    THEN [s EXCEPT !.current = @ + Len(expected)]
    ELSE s

Scanner_get_to_current(s, position) == SubSeq(s.source, position + 1, s.current)

Scanner_get_start_to_current(s) == Scanner_get_to_current(s, s.start)

Scanner_add_token(s, ttype, literal) ==
    IF Raised(s) THEN s
    ELSE [s EXCEPT !.tokens =
            Append(@, Token(ttype, s.line, s.column,
                            SubSeq(s.source, s.start + 1, s.current),
                            literal))]

Scanner_increase_line(s) == [s EXCEPT !.line = @ + 1, !.column = 0]

\* F applied to the value of s, which is evaluated once
Applied(F(_), s) == CHOOSE after \in {F(value) : value \in {s}} : TRUE

RECURSIVE Scanner_scan_while_char(_)
Scanner_scan_while_char(s) ==
    IF ~Raised(s) /\ is_identifier_char(Scanner_peek(s), FALSE)
    THEN Applied(Scanner_scan_while_char, Scanner_pop_char(s))
    ELSE s

RECURSIVE Scanner_scan_one_line_comment(_)
Scanner_scan_one_line_comment(s) ==
    IF ~Scanner_is_at_end(s, 0) /\ Scanner_peek(s) # "\n"
    THEN Applied(Scanner_scan_one_line_comment, Scanner_pop_char(s))
    ELSE s

RECURSIVE Scanner_scan_string_while(_)
Scanner_scan_string_while(s) ==
    IF is_valid_string_literal_char(Scanner_peek(s)) /\ ~Scanner_is_at_end(s, 0)
    THEN Applied(Scanner_scan_string_while, Scanner_pop_char(s))
    ELSE s

Scanner_scan_string(s) ==
    LET s1 == Scanner_scan_string_while(s)
        closing == Scanner_peek(s1)
        s2 == Scanner_pop_char(s1)
    IN  IF Scanner_is_at_end(s1, 0)
        THEN Raise(s1, throw_at(s1.line, s1.column,
                                <<"Unterminated string in file.">>))
        ELSE IF closing # "\""
        THEN Raise(s2, throw_at(s2.line, s2.column,
                                <<"Unterminated string in line.">>))
        ELSE Scanner_add_token(s2, "STRING",
                      StrLiteral(SubSeq(s2.source, s2.start + 2,
                                        s2.current - 1)))

RECURSIVE Scanner_scan_number_while(_)
Scanner_scan_number_while(s) ==
    IF isdigit(Scanner_peek(s))
    THEN Applied(Scanner_scan_number_while, Scanner_pop_char(s))
    ELSE s

Scanner_scan_number(s) ==
    LET s1 == Scanner_scan_number_while(s)
    IN  Scanner_add_token(s1, "INTNUMERAL", IntLiteral(int(Scanner_get_start_to_current(s1))))

Scanner_scan_identifier_text(s) ==
    LET s1 == Scanner_scan_while_char(s)
    IN  IF Scanner_get_start_to_current(s1) \in TwoWordPrefixes
        THEN Scanner_scan_while_char(Scanner_pop_char(s1))   \* advance single whitespace
        ELSE s1

Scanner_scan_identifier(s) ==
    LET s1 == Scanner_scan_identifier_text(s)
        text == Scanner_get_start_to_current(s1)
    IN  IF Raised(s1) THEN s1
        ELSE IF text \in KeywordTexts
        THEN Scanner_add_token(s1, KeywordType(text), None)
        ELSE Scanner_add_token(s1, "IDENTIFIER", None)

\* the branches of _scan_single_token that look at the following characters
Scanner_scan_operator(s, char) ==
    CASE char = "<" ->
            IF Scanner_match_ok(s, <<"=">>) THEN Scanner_add_token(Scanner_match(s, <<"=">>), "LEQ", None)
            ELSE IF Scanner_match_ok(s, <<"-">>)
            THEN Scanner_add_token(Scanner_match(s, <<"-">>), "ARROWASSIGN", None)
            ELSE Scanner_add_token(s, "LABRACK", None)
      [] char = ">" ->
            IF Scanner_match_ok(s, <<"=">>) THEN Scanner_add_token(Scanner_match(s, <<"=">>), "GEQ", None)
            ELSE Scanner_add_token(s, "RABRACK", None)
      [] char = "|" ->
            IF Scanner_match_ok(s, <<"|">>) THEN Scanner_add_token(Scanner_match(s, <<"|">>), "OR", None)
            ELSE Scanner_add_token(s, "BAR", None)
      [] char = "-" ->
            IF Scanner_match_ok(s, <<"=">>)
            THEN Scanner_add_token(Scanner_match(s, <<"=">>), "MINUSASSIGN", None)
            ELSE Scanner_add_token(s, "MINUS", None)
      [] char = "+" ->
            IF Scanner_match_ok(s, <<"=">>)
            THEN Scanner_add_token(Scanner_match(s, <<"=">>), "PLUSASSIGN", None)
            ELSE Scanner_add_token(s, "PLUS", None)
      [] char = "*" ->
            IF Scanner_match_ok(s, <<"=">>)
            THEN Scanner_add_token(Scanner_match(s, <<"=">>), "TIMESASSIGN", None)
            ELSE Scanner_add_token(s, "TIMES", None)
      [] char = "/" ->
            IF Scanner_match_ok(s, <<"/">>) THEN Scanner_scan_one_line_comment(Scanner_match(s, <<"/">>))
            ELSE IF Scanner_match_ok(s, <<"=">>)
            THEN Scanner_add_token(Scanner_match(s, <<"=">>), "DIVIDEASSIGN", None)
            ELSE Scanner_add_token(s, "DIVIDE", None)
      [] char = "%" ->
            IF Scanner_match_ok(s, <<"/", "%">>)
            THEN Scanner_add_token(Scanner_match(s, <<"/", "%">>), "IDIVIDE", None)
            ELSE Scanner_add_token(s, "MODULO", None)
      [] char = "." ->
            IF Scanner_match_ok(s, <<"*", "=">>)
            THEN Scanner_add_token(Scanner_match(s, <<"*", "=">>), "ELTTIMESASSIGN", None)
            ELSE IF Scanner_match_ok(s, <<"/", "=">>)
            THEN Scanner_add_token(Scanner_match(s, <<"/", "=">>), "ELTDIVIDEASSIGN", None)
            ELSE IF Scanner_match_ok(s, <<"*">>)
            THEN Scanner_add_token(Scanner_match(s, <<"*">>), "ELTTIMES", None)
            ELSE IF Scanner_match_ok(s, <<"^">>)
            THEN Scanner_add_token(Scanner_match(s, <<"^">>), "ELTPOW", None)
            ELSE IF Scanner_match_ok(s, <<"/">>)
            THEN Scanner_add_token(Scanner_match(s, <<"/">>), "ELTDIVIDE", None)
            ELSE Raise(s, UnknownCharacter(char))
      [] char = "&" ->
            IF Scanner_match_ok(s, <<"&">>) THEN Scanner_add_token(Scanner_match(s, <<"&">>), "AND", None)
            ELSE Raise(s, UnknownCharacter(char))
      [] char = "!" ->
            IF Scanner_match_ok(s, <<"=">>)
            THEN Scanner_add_token(Scanner_match(s, <<"=">>), "NEQUALS", None)
            ELSE Scanner_add_token(s, "BANG", None)
      [] char = "=" ->
            IF Scanner_match_ok(s, <<"=">>)
            THEN Scanner_add_token(Scanner_match(s, <<"=">>), "EQUALS", None)
            ELSE Scanner_add_token(s, "ASSIGN", None)

\* the single-character tokens of _scan_single_token
SingleCharTokens ==
    { <<"{", "LBRACE">>, <<"}", "RBRACE">>, <<"(", "LPAREN">>,
      <<")", "RPAREN">>, <<"[", "LBRACK">>, <<"]", "RBRACK">>,
      <<",", "COMMA">>, <<";", "SEMICOLON">>, <<"?", "QMARK">>,
      <<":", "COLON">>, <<"^", "HAT">>, <<"'", "TRANSPOSE">>,
      <<"\\", "LDIVIDE">>, <<"~", "TILDE">> }

OperatorStartChars ==
    {"<", ">", "|", "-", "+", "*", "/", "%", ".", "&", "!", "="}

\* _scan_single_token; the caller's loop guard makes the first _pop_char safe
Scanner_scan_single_token(s0) ==
    LET char == Scanner_peek(s0)
        s == Scanner_pop_char(s0)
    IN  CASE char = "\n" -> Scanner_increase_line(s)
          [] char \in {" ", "\t"} -> s
          [] char = "\"" -> Scanner_scan_string(s)
          [] \E p \in SingleCharTokens : p[1] = char ->
                Scanner_add_token(s, (CHOOSE p \in SingleCharTokens : p[1] = char)[2],
                         None)
          [] char \in OperatorStartChars -> Scanner_scan_operator(s, char)
          [] OTHER ->
                IF isdigit(char) THEN Scanner_scan_number(s)
                ELSE IF is_identifier_char(char, TRUE) THEN Scanner_scan_identifier(s)
                ELSE Raise(s, UnknownCharacter(char))

\* an iteration that passes over a blank without consuming it
Scanner_scan_tokens_iteration_blank(s) ==
    IF Scanner_peek(s) \in {" ", "\t"} THEN s
    ELSE Scanner_scan_single_token([s EXCEPT !.column = @ + (s.current - s.start),
                                            !.start = s.current])

\* one iteration of the loop of scan_tokens
Scanner_scan_tokens_iteration(s) ==
    Scanner_scan_single_token([s EXCEPT !.column = @ + (s.current - s.start),
                              !.start = s.current])

\* the end of scan_tokens: the EOF token is appended
Scanner_scan_tokens_append_eof(s) ==
    LET col == s.column + (s.current - s.start)
    IN  [s EXCEPT !.column = col,
                  !.tokens = Append(@, Token("EOF", s.line, col, << >>, None))]

\* scan_tokens as a whole: the loop, then the EOF token
RECURSIVE Scanner_scan_tokens_while(_)
Scanner_scan_tokens_while(s) ==
    IF Raised(s) \/ Scanner_is_at_end(s, 0) THEN s
    ELSE Applied(Scanner_scan_tokens_while, Scanner_scan_tokens_iteration(s))

Scanner_scan_tokens(s) ==
    LET end == Scanner_scan_tokens_while(s)
    IN  IF Raised(end) THEN end ELSE Scanner_scan_tokens_append_eof(end)

(***************************************************************************)
(* The Parser (src/nast/parsing.py).  Its methods work on a record p with  *)
(* the object's fields (token_list, current) and a field exc holding the   *)
(* ParseError once one is raised.  A grammar rule returns R(p, v): the     *)
(* parser after the call and the value returned (Absent after a raise).    *)
(* A rule that calls another one returns at once when the call raised.     *)
(***************************************************************************)
SCALAR_VAR_TYPES == {"INT", "REAL"}

ONE_DIM_VAR_TYPES ==
    {"VECTOR", "ORDERED", "POSITIVEORDERED", "SIMPLEX", "UNITVECTOR",
     "ROWVECTOR", "CHOLESKYFACTORCORR", "CORRMATRIX", "COVMATRIX"}

BASIC_TYPES == {"INT", "REAL", "COMPLEX", "VECTOR", "ROWVECTOR", "MATRIX"}

LITERAL_TYPES == {"STRING", "INTNUMERAL", "REALNUMERAL", "IMAGNUMERAL"}

RETURN_TYPE_TTYPES == {"VOID", "ARRAY"} \cup BASIC_TYPES

TWO_DIM_VAR_TYPES == {"MATRIX"}

OPT_TWO_DIM_VAR_TYPES == {"CHOLESKYFACTORCOV"}

VAR_TYPES ==
    SCALAR_VAR_TYPES \cup ONE_DIM_VAR_TYPES \cup TWO_DIM_VAR_TYPES
        \cup OPT_TWO_DIM_VAR_TYPES

LOWER_UPPER_CONSTRAINT_VAR_TYPES ==
    {"INT", "REAL", "VECTOR", "ROWVECTOR", "MATRIX"}

\* the types of offset/multiplier constraints with int among them
OFFSET_MULTIPLIER_CONSTRAINT_VAR_TYPES_int ==
    {"INT", "REAL", "VECTOR", "ROWVECTOR", "MATRIX"}

OFFSET_MULTIPLIER_CONSTRAINT_VAR_TYPES ==
    {"REAL", "VECTOR", "ROWVECTOR", "MATRIX"}

ASSIGNMENT_OPS ==
    {"ASSIGN", "ARROWASSIGN", "PLUSASSIGN", "MINUSASSIGN", "TIMESASSIGN",
     "DIVIDEASSIGN", "ELTTIMESASSIGN", "ELTDIVIDEASSIGN"}

\* ParseError(token, message): "In line {token.line}: {message}"
ParseError(token, message) ==
    [type |-> "ParseError", tagged |-> FALSE, line |-> token.line,
     column |-> 0, message |-> message]

\* Python's None where an AST node is expected
Absent == [node |-> "None"]

\* what a call returns: the parser after it, the value returned, and
\* whether it raised
R(p, v) == [p |-> p, v |-> v, raised |-> Raised(p)]

(* Expression nodes (src/nast/expr.py) *)
Literal(token) == [node |-> "Literal", token |-> token]

Unary(operator, right) ==
    [node |-> "Unary", operator |-> operator, right |-> right]

ArithmeticBinary(left, operator, right) ==
    [node |-> "ArithmeticBinary", left |-> left, operator |-> operator,
     right |-> right]

Ternary(left, left_operator, middle, right_operator, right) ==
    [node |-> "Ternary", left |-> left, left_operator |-> left_operator,
     middle |-> middle, right_operator |-> right_operator, right |-> right]

FunctionApplication(callee, closing_paren, arguments) ==
    [node |-> "FunctionApplication", callee |-> callee,
     closing_paren |-> closing_paren, arguments |-> arguments]

FunctionConditionalApplication(callee, outcome, parameters) ==
    [node |-> "FunctionConditionalApplication", callee |-> callee,
     outcome |-> outcome, parameters |-> parameters]

Indexing(callee, closing_bracket, indices) ==
    [node |-> "Indexing", callee |-> callee,
     closing_bracket |-> closing_bracket, indices |-> indices]

Slice(left, right) == [node |-> "Slice", left |-> left, right |-> right]

Variable(identifier) == [node |-> "Variable", identifier |-> identifier]

Parenthesis(inner) == [node |-> "Parenthesis", inner |-> inner]

(* Cursor methods *)
Parser_init(token_list) ==
    [token_list |-> token_list, current |-> 0, exc |-> NoExc]

Parser_peek(p) == p.token_list[p.current + 1]

Parser_get_current(p) == p.token_list[p.current + 1]

\* token_list[current - 1]; index -1 of a Python list is its last element
Parser_previous(p) ==
    IF p.current = 0 THEN p.token_list[Len(p.token_list)]
    ELSE p.token_list[p.current]

Parser_is_at_end(p) == Parser_peek(p).ttype = "EOF"

\* the cursor moved on whatever the current token is
Parser_pop_token_always(p) == [p EXCEPT !.current = @ + 1]

\* _pop_token: the token returned is Parser_peek(p) of the state before
Parser_pop_token(p) ==
    IF Parser_is_at_end(p) THEN p
    ELSE [p EXCEPT !.current = @ + 1]

\* without the test for the end of the tokens
Parser_check_any_at_end(p, ttypes) == Parser_peek(p).ttype \in ttypes

Parser_check_any(p, ttypes) ==
    /\ ~Parser_is_at_end(p)
    /\ Parser_peek(p).ttype \in ttypes

Parser_check(p, ttype) == Parser_check_any(p, {ttype})

Parser_match_any(p, ttypes) ==
    IF Parser_check_any(p, ttypes) THEN R(Parser_pop_token(p), TRUE)
    ELSE R(p, FALSE)

Parser_match(p, ttype) == Parser_match_any(p, {ttype})

Parser_consume_any(p, ttypes, message) ==
    IF Parser_check_any(p, ttypes) THEN R(Parser_pop_token(p), Parser_peek(p))
    ELSE R(Raise(p, ParseError(Parser_get_current(p), message)), Absent)

Parser_consume(p, ttype, message) == Parser_consume_any(p, {ttype}, message)

\* the message _consume_any builds when none is given
Expected(ttype) == <<"Expected TokenType.", ttype, ".">>

(***************************************************************************)
(* The grammar rules.  A rule takes the parser p and returns R(p', v): the *)
(* parser after the rule and the value it returns; once p' has raised, the *)
(* rules that follow do nothing.  Then(call, Next) is the statement that   *)
(* follows a call: it runs Next on what the call returned unless the call  *)
(* raised.  The argument of a `_while' operator is what the loop has built *)
(* so far, together with the parser.                                       *)
(***************************************************************************)
RECURSIVE Parser_self(_, _)
RECURSIVE Parser_parse_expression(_)
RECURSIVE Parser_parse_precedence_10(_)
RECURSIVE Parser_parse_precedence_10_while(_)
RECURSIVE Parser_parse_precedence_9(_)
RECURSIVE Parser_parse_precedence_9_while(_)
RECURSIVE Parser_parse_precedence_8(_)
RECURSIVE Parser_parse_precedence_8_while(_)
RECURSIVE Parser_parse_precedence_7(_)
RECURSIVE Parser_parse_precedence_7_while(_)
RECURSIVE Parser_parse_precedence_6(_)
RECURSIVE Parser_parse_precedence_6_while(_)
RECURSIVE Parser_parse_precedence_5(_)
RECURSIVE Parser_parse_precedence_5_while(_)
RECURSIVE Parser_parse_precedence_4(_)
RECURSIVE Parser_parse_precedence_4_while(_)
RECURSIVE Parser_parse_precedence_3(_)
RECURSIVE Parser_parse_precedence_3_while(_)
RECURSIVE Parser_parse_precedence_2(_)
RECURSIVE Parser_parse_precedence_2_while(_)
RECURSIVE Parser_parse_precedence_1(_)
RECURSIVE Parser_parse_precedence_0_5(_)
RECURSIVE Parser_parse_precedence_0_5_while(_)
RECURSIVE Parser_parse_precedence_0(_)
RECURSIVE Parser_parse_precedence_0_while(_)
RECURSIVE Parser_complete_function_application(_, _)
RECURSIVE Parser_parse_arguments_while(_)
RECURSIVE Parser_complete_indexing(_, _)
RECURSIVE Parser_complete_indexing_while(_)
RECURSIVE Parser_parse_slice(_)
RECURSIVE Parser_parse_primary(_)

\* what a rule returns when a call it made raised
Fail(call) == R(call.p, Absent)

\* the call is evaluated once, and what follows is given its value
Then(call, Next(_)) ==
    CHOOSE after \in {IF made.raised THEN Fail(made) ELSE Next(made) :
                         made \in {call}} : TRUE

Parser_parse_expression(p) == Parser_self("_parse_precedence_10", p)

\* `? :' conditional operator, ternary infix, right associative
Parser_parse_precedence_10_while(so_far) ==
    Then(so_far, LAMBDA expression :
    Then(Parser_match(expression.p, "QMARK"), LAMBDA m :
         IF ~m.v THEN expression
         ELSE Then(Parser_self("_parse_precedence_10", m.p), LAMBDA middle :
              Then(Parser_consume(middle.p, "COLON", Expected("COLON")),
                   LAMBDA right_operator :
              Then(Parser_self("_parse_precedence_10", right_operator.p), LAMBDA right :
                   Parser_parse_precedence_10_while(
                       R(right.p,
                         Ternary(expression.v, Parser_previous(m.p), middle.v,
                                 right_operator.v, right.v))))))))

Parser_parse_precedence_10(p) ==
    Parser_parse_precedence_10_while(Parser_self("_parse_precedence_9", p))

\* `||' logical or, binary infix, left associative
Parser_parse_precedence_9_while(so_far) ==
    Then(so_far, LAMBDA expression :
    Then(Parser_match(expression.p, "OR"), LAMBDA m :
         IF ~m.v THEN expression
         ELSE Parser_parse_precedence_9_while(
                  Then(Parser_self("_parse_precedence_8", m.p), LAMBDA right :
                       R(right.p,
                         ArithmeticBinary(expression.v, Parser_previous(m.p),
                                          right.v))))))

Parser_parse_precedence_9(p) ==
    Parser_parse_precedence_9_while(Parser_self("_parse_precedence_8", p))

\* `&&' logical and
Parser_parse_precedence_8_while(so_far) ==
    Then(so_far, LAMBDA expression :
    Then(Parser_match(expression.p, "AND"), LAMBDA m :
         IF ~m.v THEN expression
         ELSE Parser_parse_precedence_8_while(
                  Then(Parser_self("_parse_precedence_7", m.p), LAMBDA right :
                       R(right.p,
                         ArithmeticBinary(expression.v, Parser_previous(m.p),
                                          right.v))))))

Parser_parse_precedence_8(p) ==
    Parser_parse_precedence_8_while(Parser_self("_parse_precedence_7", p))

\* `==' and `!='
Parser_parse_precedence_7_while(so_far) ==
    Then(so_far, LAMBDA expression :
    Then(Parser_match_any(expression.p, {"EQUALS", "NEQUALS"}), LAMBDA m :
         IF ~m.v THEN expression
         ELSE Parser_parse_precedence_7_while(
                  Then(Parser_self("_parse_precedence_6", m.p), LAMBDA right :
                       R(right.p,
                         ArithmeticBinary(expression.v, Parser_previous(m.p),
                                          right.v))))))

Parser_parse_precedence_7(p) ==
    Parser_parse_precedence_7_while(Parser_self("_parse_precedence_6", p))

\* `<', `<=', `>', `>='
Parser_parse_precedence_6_while(so_far) ==
    Then(so_far, LAMBDA expression :
    Then(Parser_match_any(expression.p,
                        {"LABRACK", "LEQ", "RABRACK", "GEQ"}), LAMBDA m :
         IF ~m.v THEN expression
         ELSE Parser_parse_precedence_6_while(
                  Then(Parser_self("_parse_precedence_5", m.p), LAMBDA right :
                       R(right.p,
                         ArithmeticBinary(expression.v, Parser_previous(m.p),
                                          right.v))))))

Parser_parse_precedence_6(p) ==
    Parser_parse_precedence_6_while(Parser_self("_parse_precedence_5", p))

\* `+' and `-' taking a whole level-5 expression as their right operand
\* (right-associative)
Parser_parse_precedence_5_while_right(so_far) ==
    Then(so_far, LAMBDA expression :
    Then(Parser_match_any(expression.p, {"PLUS", "MINUS"}), LAMBDA m :
         IF ~m.v THEN expression
         ELSE Then(Parser_self("_parse_precedence_5", m.p), LAMBDA right :
                   R(right.p,
                     ArithmeticBinary(expression.v, Parser_previous(m.p),
                                      right.v)))))

\* binary `+' and `-'
Parser_parse_precedence_5_while(so_far) ==
    Then(so_far, LAMBDA expression :
    Then(Parser_match_any(expression.p, {"PLUS", "MINUS"}), LAMBDA m :
         IF ~m.v THEN expression
         ELSE Parser_parse_precedence_5_while(
                  Then(Parser_self("_parse_precedence_4", m.p), LAMBDA right :
                       R(right.p,
                         ArithmeticBinary(expression.v, Parser_previous(m.p),
                                          right.v))))))

\* level 5 taking its left operand from level 3, passing over * / %
Parser_parse_precedence_5_skip(p) ==
    Parser_parse_precedence_5_while(Parser_self("_parse_precedence_3", p))

Parser_parse_precedence_5(p) ==
    Parser_parse_precedence_5_while(Parser_self("_parse_precedence_4", p))

\* `*', `/', `%'
Parser_parse_precedence_4_while(so_far) ==
    Then(so_far, LAMBDA expression :
    Then(Parser_match_any(expression.p, {"TIMES", "DIVIDE", "MODULO"}), LAMBDA m :
         IF ~m.v THEN expression
         ELSE Parser_parse_precedence_4_while(
                  Then(Parser_self("_parse_precedence_3", m.p), LAMBDA right :
                       R(right.p,
                         ArithmeticBinary(expression.v, Parser_previous(m.p),
                                          right.v))))))

Parser_parse_precedence_4(p) ==
    Parser_parse_precedence_4_while(Parser_self("_parse_precedence_3", p))

\* `\' left division
Parser_parse_precedence_3_while(so_far) ==
    Then(so_far, LAMBDA expression :
    Then(Parser_match(expression.p, "LDIVIDE"), LAMBDA m :
         IF ~m.v THEN expression
         ELSE Parser_parse_precedence_3_while(
                  Then(Parser_self("_parse_precedence_2", m.p), LAMBDA right :
                       R(right.p,
                         ArithmeticBinary(expression.v, Parser_previous(m.p),
                                          right.v))))))

Parser_parse_precedence_3(p) ==
    Parser_parse_precedence_3_while(Parser_self("_parse_precedence_2", p))

\* `.*' and `./'
Parser_parse_precedence_2_while(so_far) ==
    Then(so_far, LAMBDA expression :
    Then(Parser_match_any(expression.p, {"ELTTIMES", "ELTDIVIDE"}), LAMBDA m :
         IF ~m.v THEN expression
         ELSE Parser_parse_precedence_2_while(
                  Then(Parser_self("_parse_precedence_1", m.p), LAMBDA right :
                       R(right.p,
                         ArithmeticBinary(expression.v, Parser_previous(m.p),
                                          right.v))))))

Parser_parse_precedence_2(p) ==
    Parser_parse_precedence_2_while(Parser_self("_parse_precedence_1", p))

\* unary prefix operators `!', `-' and `+'
Parser_parse_precedence_1(p) ==
    Then(Parser_match_any(p, {"BANG", "MINUS", "PLUS"}), LAMBDA m :
         IF ~m.v THEN Parser_self("_parse_precedence_0_5", p)
         ELSE Then(Parser_self("_parse_precedence_1", m.p), LAMBDA right :
                   R(right.p, Unary(Parser_previous(m.p), right.v))))

\* `^' taking a postfix expression as its right operand (left-associative)
Parser_parse_precedence_0_5_while_left(so_far) ==
    Then(so_far, LAMBDA expression :
    Then(Parser_match(expression.p, "HAT"), LAMBDA m :
         IF ~m.v THEN expression
         ELSE Parser_parse_precedence_0_5_while(
                  Then(Parser_self("_parse_precedence_0", m.p), LAMBDA right :
                       R(right.p,
                         ArithmeticBinary(expression.v, Parser_previous(m.p),
                                          right.v))))))

\* binary infix `^', right associative
Parser_parse_precedence_0_5_while(so_far) ==
    Then(so_far, LAMBDA expression :
    Then(Parser_match(expression.p, "HAT"), LAMBDA m :
         IF ~m.v THEN expression
         ELSE Parser_parse_precedence_0_5_while(
                  Then(Parser_self("_parse_precedence_0_5", m.p), LAMBDA right :
                       R(right.p,
                         ArithmeticBinary(expression.v, Parser_previous(m.p),
                                          right.v))))))

Parser_parse_precedence_0_5(p) ==
    Parser_parse_precedence_0_5_while(Parser_self("_parse_precedence_0", p))

\* a single bracket group instead of the loop over the groups
Parser_parse_precedence_0_while_once(so_far) ==
    Then(so_far, LAMBDA expression :
    Then(Parser_match(expression.p, "LBRACK"), LAMBDA m :
         IF ~m.v THEN expression
         ELSE Parser_complete_indexing(m.p, expression.v)))

\* while self._match(TokenType.LBRACK): ... _complete_indexing(expression)
Parser_parse_precedence_0_while(so_far) ==
    Then(so_far, LAMBDA expression :
    Then(Parser_match(expression.p, "LBRACK"), LAMBDA m :
         IF ~m.v THEN expression
         ELSE Parser_parse_precedence_0_while(
                  Parser_complete_indexing(m.p, expression.v))))

\* postfix `()' (function application) and `[]' (indexing)
Parser_parse_precedence_0(p) ==
    Then(Parser_self("_parse_primary", p), LAMBDA expression :
    Then(Parser_match(expression.p, "LPAREN"), LAMBDA m :
         IF m.v THEN Parser_complete_function_application(m.p, expression.v)
         ELSE IF Parser_check(expression.p, "LBRACK")
         THEN Parser_parse_precedence_0_while(expression)
         ELSE expression))

\* while self._match(TokenType.COMMA): arguments.append(_parse_expression())
Parser_parse_arguments_while(so_far) ==
    Then(so_far, LAMBDA call :
    Then(Parser_match(call.p, "COMMA"), LAMBDA m :
         IF ~m.v THEN call
         ELSE Parser_parse_arguments_while(
                  Then(Parser_self("_parse_expression", m.p), LAMBDA argument :
                       R(argument.p,
                         [call.v EXCEPT
                             !.arguments = Append(@, argument.v)])))))

\* a head that leaves the expression before `|' among the arguments
Parser_parse_arguments_head_kept(p) ==
    Then(Parser_self("_parse_expression", p), LAMBDA first :
    Then(Parser_match(first.p, "BAR"), LAMBDA bar :
         IF ~bar.v
         THEN R(first.p, [outcome |-> Absent, arguments |-> <<first.v>>])
         ELSE IF Parser_check(bar.p, "RPAREN")
         THEN R(bar.p, [outcome |-> first.v, arguments |-> <<first.v>>])
         ELSE Then(Parser_self("_parse_expression", bar.p), LAMBDA param :
                   R(param.p,
                     [outcome |-> first.v, arguments |-> <<first.v, param.v>>]))))

\* the arguments of a call up to the `while' loop: outcome is the
\* expression before `|' (Absent when there is no `|')
Parser_parse_arguments_head(p) ==
    Then(Parser_self("_parse_expression", p), LAMBDA first :
    Then(Parser_match(first.p, "BAR"), LAMBDA bar :
         IF ~bar.v
         THEN R(first.p, [outcome |-> Absent, arguments |-> <<first.v>>])
         ELSE IF Parser_check(bar.p, "RPAREN")
         THEN R(bar.p, [outcome |-> first.v, arguments |-> << >>])
         ELSE Then(Parser_self("_parse_expression", bar.p), LAMBDA param :
                   R(param.p,
                     [outcome |-> first.v, arguments |-> <<param.v>>]))))

Parser_complete_function_application(p, callee) ==
    Then(IF Parser_check(p, "RPAREN")
         THEN R(p, [outcome |-> Absent, arguments |-> << >>])
         ELSE Parser_parse_arguments_while(Parser_parse_arguments_head(p)),
         LAMBDA call :
    Then(Parser_consume(call.p, "RPAREN", <<"Expect ')' after arguments.">>),
         LAMBDA paren :
         IF call.v.outcome # Absent
         THEN R(paren.p,
                FunctionConditionalApplication(callee, call.v.outcome,
                                               call.v.arguments))
         ELSE R(paren.p,
                FunctionApplication(callee, paren.v, call.v.arguments))))

Parser_complete_indexing_while(so_far) ==
    Then(so_far, LAMBDA indices :
    Then(Parser_match(indices.p, "COMMA"), LAMBDA m :
         IF ~m.v THEN indices
         ELSE Parser_complete_indexing_while(
                  Then(Parser_self("_parse_slice", m.p), LAMBDA expression :
                       R(expression.p, Append(indices.v, expression.v))))))

Parser_complete_indexing(p, callee) ==
    Then(IF Parser_check(p, "RBRACK") THEN R(p, << >>)
         ELSE Parser_complete_indexing_while(
                  Then(Parser_self("_parse_slice", p), LAMBDA expression :
                       R(expression.p, <<expression.v>>))),
         LAMBDA indices :
    Then(Parser_consume(indices.p, "RBRACK", <<"Expect ']' after indices.">>),
         LAMBDA paren :
         R(paren.p, Indexing(callee, paren.v, indices.v))))

Parser_parse_slice(p) ==
    Then(Parser_self("_parse_expression", p), LAMBDA expression :
    Then(Parser_match(expression.p, "COLON"), LAMBDA m :
         IF ~m.v THEN expression
         ELSE Then(Parser_self("_parse_expression", m.p), LAMBDA right :
                   R(right.p, Slice(expression.v, right.v)))))

Parser_parse_primary(p) ==
    IF Parser_check_any(p, LITERAL_TYPES)
    THEN R(Parser_pop_token(p), Literal(Parser_peek(p)))
    ELSE IF Parser_check(p, "LPAREN")
    THEN Then(Parser_self("_parse_expression", Parser_pop_token(p)), LAMBDA inner :
         Then(Parser_consume(inner.p, "RPAREN", <<"Expected ')'.">>),
              LAMBDA rparen :
              R(rparen.p, Parenthesis(inner.v))))
    ELSE IF Parser_check(p, "IDENTIFIER")
    THEN R(Parser_pop_token(p), Variable(Parser_peek(p)))
    ELSE R(Raise(p, ParseError(Parser_get_current(p), << >>)), Absent)


(* Statement nodes (src/nast/stmt.py) *)
Declaration(dtype, identifier, type_dims, array_dims, initializer, var_constraints) ==
    [node |-> "Declaration", dtype |-> dtype, identifier |-> identifier,
     type_dims |-> type_dims, lower |-> var_constraints.lower,
     upper |-> var_constraints.upper, offset |-> var_constraints.offset,
     multiplier |-> var_constraints.multiplier, array_dims |-> array_dims,
     initializer |-> initializer]

ArgumentDeclaration(dtype, n_dims, identifier) ==
    [node |-> "ArgumentDeclaration", dtype |-> dtype, n_dims |-> n_dims,
     identifier |-> identifier]

Assign(lhs, assignment_op, value) ==
    [node |-> "Assign", lhs |-> lhs, assignment_op |-> assignment_op,
     value |-> value]

Tilde(lhs, identifier, args) ==
    [node |-> "Tilde", lhs |-> lhs, identifier |-> identifier, args |-> args]

Break(keyword) == [node |-> "Break", keyword |-> keyword]

Continue(keyword) == [node |-> "Continue", keyword |-> keyword]

Return(keyword, value) ==
    [node |-> "Return", keyword |-> keyword, value |-> value]

Empty(semicolon) == [node |-> "Empty", semicolon |-> semicolon]

IfElse(condition, consequent, alternative) ==
    [node |-> "IfElse", condition |-> condition, consequent |-> consequent,
     alternative |-> alternative]

While(condition, body) ==
    [node |-> "While", condition |-> condition, body |-> body]

For(identifier, begin, end, body) ==
    [node |-> "For", identifier |-> identifier, begin |-> begin,
     end |-> end, body |-> body]

\* stmt.Print (the name Print is taken by the TLC module)
PrintStatement(expressions) == [node |-> "Print", expressions |-> expressions]

Reject(expressions) == [node |-> "Reject", expressions |-> expressions]

TargetPlusAssign(value) == [node |-> "TargetPlusAssign", value |-> value]

Block(declarations, statements) ==
    [node |-> "Block", declarations |-> declarations,
     statements |-> statements]

ReturnTypeDeclaration(dtype, n_dims) ==
    [node |-> "ReturnTypeDeclaration", dtype |-> dtype, n_dims |-> n_dims]

FunctionDeclaration(return_dtype, identifier, args) ==
    [node |-> "FunctionDeclaration", return_dtype |-> return_dtype,
     identifier |-> identifier, args |-> args]

FunctionDefinition(header, body) ==
    [node |-> "FunctionDefinition", header |-> header, body |-> body]

Program(functions, data, transformed_data, parameters, transformed_parameters, model, generated_quantities) ==
    [node |-> "Program", functions |-> functions, data |-> data,
     transformed_data |-> transformed_data, parameters |-> parameters,
     transformed_parameters |-> transformed_parameters, model |-> model,
     generated_quantities |-> generated_quantities]

\* VarConstraints(): all four constraints None
VarConstraints ==
    [lower |-> Absent, upper |-> Absent, offset |-> Absent,
     multiplier |-> Absent]

\* ttype.name.lower() of the four constraint keywords
ConstraintName(ttype) ==
    CASE ttype = "LOWER" -> "lower" [] ttype = "UPPER" -> "upper"
      [] ttype = "OFFSET" -> "offset" [] ttype = "MULTIPLIER" -> "multiplier"


(* Declaration grammar *)
RECURSIVE Parser_parse_var_constraints(_, _, _, _)
RECURSIVE Parser_parse_array_dims_while(_, _)

\* the `while True' loop of _parse_var_constraints
Parser_parse_var_constraints(p, ttype_0, ttype_1, constraints) ==
    Then(Parser_match_any(p, {ttype_0, ttype_1}), LAMBDA m :
         IF ~m.v
         THEN R(Raise(p, ParseError(Parser_get_current(p),
                                    <<"Expected '", ConstraintName(ttype_0),
                                      "' or '", ConstraintName(ttype_1),
                                      "', but found '">>
                                        \o Parser_get_current(p).lexeme
                                        \o <<"'.">>)),
                Absent)
         ELSE Then(Parser_consume(m.p, "ASSIGN",
                                  <<"Expect '=' after ",
                                    ConstraintName(Parser_previous(m.p).ttype),
                                    ".">>),
                   LAMBDA assign :
              IF constraints[ConstraintName(Parser_previous(m.p).ttype)]
                     # Absent
              THEN R(Raise(assign.p,
                           ParseError(Parser_previous(m.p),
                                      <<"Multiple definition of ",
                                        ConstraintName(Parser_previous(m.p).ttype),
                                        ".">>)),
                     Absent)
              ELSE Then(Parser_self("_parse_precedence_5", assign.p),
                        LAMBDA value :
                   Then(Parser_match(value.p, "COMMA"), LAMBDA comma :
                        IF comma.v
                        THEN Parser_parse_var_constraints(
                                 comma.p, ttype_0, ttype_1,
                                 [constraints EXCEPT
                                     ![ConstraintName(Parser_previous(m.p).ttype)]
                                         = value.v])
                        ELSE R(value.p,
                               [constraints EXCEPT
                                   ![ConstraintName(Parser_previous(m.p).ttype)]
                                       = value.v])))))

Parser_parse_lower_upper_offset_multiplier(p, dtype) ==
    Then(Parser_match(p, "LABRACK"), LAMBDA m :
         IF ~m.v THEN R(p, VarConstraints)
         ELSE Then(IF /\ Parser_check_any(m.p, {"OFFSET", "MULTIPLIER"})
                      /\ dtype.ttype \in OFFSET_MULTIPLIER_CONSTRAINT_VAR_TYPES
                   THEN Parser_parse_var_constraints(m.p, "OFFSET",
                                                     "MULTIPLIER",
                                                     VarConstraints)
                   ELSE IF /\ Parser_check_any(m.p, {"LOWER", "UPPER"})
                           /\ dtype.ttype \in LOWER_UPPER_CONSTRAINT_VAR_TYPES
                   THEN Parser_parse_var_constraints(m.p, "LOWER", "UPPER",
                                                     VarConstraints)
                   ELSE R(Raise(m.p,
                                ParseError(Parser_get_current(m.p),
                                           <<"Expected multiplier, offset, lower, upper.">>)),
                          Absent),
                   LAMBDA constraints :
              Then(Parser_consume(constraints.p, "RABRACK",
                                  <<"Expect '>' after var constraints.">>),
                   LAMBDA close : R(close.p, constraints.v))))

\* the dimensions between `[' and `]': one, two, or one or two
Parser_parse_type_dims_1(p) ==
    Then(Parser_self("_parse_expression", p), LAMBDA first :
         R(first.p, <<first.v>>))

\* two dimensions of which the second may be left out
Parser_parse_type_dims_2_optional(p) ==
    Then(Parser_self("_parse_expression", p), LAMBDA first :
    Then(Parser_match(first.p, "COMMA"), LAMBDA comma :
         IF ~comma.v THEN R(first.p, <<first.v>>)
         ELSE Then(Parser_self("_parse_expression", comma.p), LAMBDA second :
                   R(second.p, <<first.v, second.v>>))))

Parser_parse_type_dims_2(p) ==
    Then(Parser_self("_parse_expression", p), LAMBDA first :
    Then(Parser_consume(first.p, "COMMA", <<"Expected ','.">>), LAMBDA comma :
    Then(Parser_self("_parse_expression", comma.p), LAMBDA second :
         R(second.p, <<first.v, second.v>>))))

Parser_parse_type_dims_opt(p) ==
    Then(Parser_self("_parse_expression", p), LAMBDA first :
    Then(Parser_match(first.p, "COMMA"), LAMBDA comma :
         IF ~comma.v THEN R(first.p, <<first.v>>)
         ELSE Then(Parser_self("_parse_expression", comma.p), LAMBDA second :
                   R(second.p, <<first.v, second.v>>))))

Parser_parse_type_dims(p, ttype) ==
    IF ttype \notin ONE_DIM_VAR_TYPES \cup TWO_DIM_VAR_TYPES
                        \cup OPT_TWO_DIM_VAR_TYPES
    THEN R(p, << >>)
    ELSE Then(Parser_consume(p, "LBRACK", <<"Expected '['.">>), LAMBDA lbrack :
         Then(IF ttype \in ONE_DIM_VAR_TYPES
              THEN Parser_parse_type_dims_1(lbrack.p)
              ELSE IF ttype \in TWO_DIM_VAR_TYPES
              THEN Parser_parse_type_dims_2(lbrack.p)
              ELSE Parser_parse_type_dims_opt(lbrack.p),
              LAMBDA type_dims :
         Then(Parser_consume(type_dims.p, "RBRACK", <<"Expected ']'.">>),
              LAMBDA rbrack : R(rbrack.p, type_dims.v))))

\* the `while True' loop of _parse_array_dims
Parser_parse_array_dims_while(p, array_dims) ==
    Then(Parser_self("_parse_expression", p), LAMBDA expression :
    Then(Parser_match(expression.p, "COMMA"), LAMBDA comma :
         IF comma.v
         THEN Parser_parse_array_dims_while(comma.p,
                                            Append(array_dims, expression.v))
         ELSE R(expression.p, Append(array_dims, expression.v))))

\* array dimensions that may be an empty `[]'
Parser_parse_array_dims_or_none(p) ==
    Then(Parser_match(p, "LBRACK"), LAMBDA m :
         IF ~m.v THEN R(p, << >>)
         ELSE Then(IF Parser_check(m.p, "RBRACK") THEN R(m.p, << >>)
                   ELSE Parser_parse_array_dims_while(m.p, << >>),
                   LAMBDA array_dims :
              Then(Parser_consume(array_dims.p, "RBRACK",
                                  <<"Expected ']' after array dimensions.">>),
                   LAMBDA rbrack : R(rbrack.p, array_dims.v))))

Parser_parse_array_dims(p) ==
    Then(Parser_match(p, "LBRACK"), LAMBDA m :
         IF ~m.v THEN R(p, << >>)
         ELSE Then(Parser_parse_array_dims_while(m.p, << >>),
                   LAMBDA array_dims :
              Then(Parser_consume(array_dims.p, "RBRACK",
                                  <<"Expected ']' after array dimensions.">>),
                   LAMBDA rbrack : R(rbrack.p, array_dims.v))))

\* initializer = None; if self._match(TokenType.ASSIGN): initializer = ...
Parser_parse_initializer(p) ==
    Then(Parser_match(p, "ASSIGN"), LAMBDA assign :
         IF assign.v THEN Parser_self("_parse_expression", assign.p)
         ELSE R(p, Absent))

Parser_parse_declaration(p) ==
    Then(Parser_parse_lower_upper_offset_multiplier(p, Parser_previous(p)),
         LAMBDA var_constraints :
    Then(Parser_parse_type_dims(var_constraints.p, Parser_previous(p).ttype),
         LAMBDA type_dims :
    Then(Parser_consume(type_dims.p, "IDENTIFIER",
                        <<"Expect identifier in declaration.">>),
         LAMBDA identifier :
    Then(Parser_self("_parse_array_dims", identifier.p), LAMBDA array_dims :
    Then(Parser_parse_initializer(array_dims.p), LAMBDA initializer :
    Then(Parser_consume(initializer.p, "SEMICOLON",
                        <<"Expect ';' after declaration.">>),
         LAMBDA semicolon :
         R(semicolon.p,
           Declaration(Parser_previous(p), identifier.v, type_dims.v,
                       array_dims.v, initializer.v, var_constraints.v))))))))

\* a declaration that is returned whether or not it has an initializer
Parser_parse_declaration_no_assign_unchecked(p, error_msg_if_init) ==
    Parser_self("_parse_declaration", p)

Parser_parse_declaration_no_assign(p, error_msg_if_init) ==
    Then(Parser_self("_parse_declaration", p), LAMBDA declaration :
         IF declaration.v.initializer # Absent
         THEN R(Raise(declaration.p,
                      ParseError(declaration.v.identifier, error_msg_if_init)),
                Absent)
         ELSE declaration)
(* Statement and block grammar *)
RECURSIVE Parser_parse_statement(_)
RECURSIVE Parser_parse_expressions_while(_, _)
RECURSIVE Parser_parse_tilde_args_while(_, _)
RECURSIVE Parser_parse_block(_)
RECURSIVE Parser_parse_block_declarations(_, _)
RECURSIVE Parser_parse_block_statements(_, _)

\* while self._match(TokenType.COMMA): expressions.append(...)
Parser_parse_expressions_while(p, expressions) ==
    Then(Parser_match(p, "COMMA"), LAMBDA m :
         IF ~m.v THEN R(p, expressions)
         ELSE Then(Parser_self("_parse_expression", m.p), LAMBDA expression :
                   Parser_parse_expressions_while(
                       expression.p, Append(expressions, expression.v))))

\* a `while' loop instead: no argument is required
RECURSIVE Parser_parse_tilde_args_while_or_none(_, _)
Parser_parse_tilde_args_while_or_none(p, args) ==
    IF Parser_check(p, "RPAREN") THEN R(p, args)
    ELSE Then(Parser_self("_parse_expression", p), LAMBDA expression :
         Then(Parser_match(expression.p, "COMMA"), LAMBDA comma :
              IF comma.v
              THEN Parser_parse_tilde_args_while_or_none(
                       comma.p, Append(args, expression.v))
              ELSE R(expression.p, Append(args, expression.v))))

\* the `while True' loop over the arguments of a Tilde statement
Parser_parse_tilde_args_while(p, args) ==
    Then(Parser_self("_parse_expression", p), LAMBDA expression :
    Then(Parser_match(expression.p, "COMMA"), LAMBDA comma :
         IF comma.v
         THEN Parser_parse_tilde_args_while(comma.p,
                                            Append(args, expression.v))
         ELSE R(expression.p, Append(args, expression.v))))

\* `break;' and `continue;': the keyword has been consumed
Parser_parse_statement_break(p) ==
    Then(Parser_consume(p, "SEMICOLON", <<"Expect ';' after 'break'.">>),
         LAMBDA semicolon : R(semicolon.p, Break(Parser_previous(p))))

Parser_parse_statement_continue(p) ==
    Then(Parser_consume(p, "SEMICOLON", <<"Expect ';' after 'continue'.">>),
         LAMBDA semicolon : R(semicolon.p, Continue(Parser_previous(p))))

Parser_parse_statement_return(p) ==
    Then(Parser_match(p, "SEMICOLON"), LAMBDA m :
         IF m.v THEN R(m.p, Return(Parser_previous(p), Absent))
         ELSE Then(Parser_self("_parse_expression", p), LAMBDA value :
              Then(Parser_consume(value.p, "SEMICOLON",
                                  <<"Expect ';' after return value.">>),
                   LAMBDA semicolon :
                   R(semicolon.p, Return(Parser_previous(p), value.v)))))

\* no alternative is looked for after the consequent
Parser_parse_statement_else_none(p) == R(p, Absent)

\* alternative = None; if self._match(TokenType.ELSE): alternative = ...
Parser_parse_statement_else(p) ==
    Then(Parser_match(p, "ELSE"), LAMBDA else :
         IF else.v THEN Parser_self("_parse_statement", else.p)
         ELSE R(p, Absent))

Parser_parse_statement_if(p) ==
    Then(Parser_consume(p, "LPAREN", <<"Expect '(' after 'if'.">>),
         LAMBDA lparen :
    Then(Parser_self("_parse_expression", lparen.p), LAMBDA condition :
    Then(Parser_consume(condition.p, "RPAREN",
                        <<"Expect ')' after condition.">>),
         LAMBDA rparen :
    Then(Parser_self("_parse_statement", rparen.p), LAMBDA consequent :
    Then(Parser_parse_statement_else(consequent.p), LAMBDA alternative :
         R(alternative.p,
           IfElse(condition.v, consequent.v, alternative.v)))))))

Parser_parse_statement_while(p) ==
    Then(Parser_consume(p, "LPAREN", <<"Expect '(' after 'while'.">>),
         LAMBDA lparen :
    Then(Parser_self("_parse_expression", lparen.p), LAMBDA condition :
    Then(Parser_consume(condition.p, "RPAREN",
                        <<"Expect ')' after condition.">>),
         LAMBDA rparen :
    Then(Parser_self("_parse_statement", rparen.p), LAMBDA body :
         R(body.p, While(condition.v, body.v))))))

Parser_parse_statement_for(p) ==
    Then(Parser_consume(p, "LPAREN", <<"Expect '(' after 'for'.">>),
         LAMBDA lparen :
    Then(Parser_consume(lparen.p, "IDENTIFIER",
                        <<"Expect identifier after '('.">>),
         LAMBDA identifier :
    Then(Parser_consume(identifier.p, "IN",
                        <<"Expect 'in' after identifier.">>),
         LAMBDA in :
    Then(Parser_self("_parse_expression", in.p), LAMBDA begin :
    Then(Parser_consume(begin.p, "COLON", <<"Expect ':' after expression.">>),
         LAMBDA colon :
    Then(Parser_self("_parse_expression", colon.p), LAMBDA end :
    Then(Parser_consume(end.p, "RPAREN", <<"Expect ')'.">>), LAMBDA rparen :
    Then(Parser_self("_parse_statement", rparen.p), LAMBDA body :
         R(body.p, For(identifier.v, begin.v, end.v, body.v))))))))))

\* the argument list of `print' and `reject', up to the closing `;'
Parser_parse_statement_expressions(p, keyword) ==
    Then(Parser_consume(p, "LPAREN", <<"Expect '(' after '", keyword, "'.">>),
         LAMBDA lparen :
    Then(Parser_self("_parse_expression", lparen.p), LAMBDA first :
    Then(Parser_parse_expressions_while(first.p, <<first.v>>),
         LAMBDA expressions :
    Then(Parser_consume(expressions.p, "RPAREN",
                        <<"Expect ')' after expression.">>),
         LAMBDA rparen :
    Then(Parser_consume(rparen.p, "SEMICOLON",
                        <<"Expect ';' after statement.">>),
         LAMBDA semicolon : R(semicolon.p, expressions.v))))))

Parser_parse_statement_print(p) ==
    Then(Parser_parse_statement_expressions(p, "print"), LAMBDA expressions :
         R(expressions.p, PrintStatement(expressions.v)))

Parser_parse_statement_reject(p) ==
    Then(Parser_parse_statement_expressions(p, "reject"), LAMBDA expressions :
         R(expressions.p, Reject(expressions.v)))

Parser_parse_statement_target(p) ==
    Then(Parser_consume(p, "PLUSASSIGN", Expected("PLUSASSIGN")),
         LAMBDA plusassign :
    Then(Parser_self("_parse_expression", plusassign.p), LAMBDA expression :
    Then(Parser_consume(expression.p, "SEMICOLON",
                        <<"Expect ';' after expression.">>),
         LAMBDA semicolon :
         R(semicolon.p, TargetPlusAssign(expression.v)))))

\* expression <assignment op> value ;
Parser_parse_statement_assign(p, expression) ==
    Then(Parser_self("_parse_expression", p), LAMBDA value :
    Then(Parser_consume(value.p, "SEMICOLON",
                        <<"Expect ';' after assignment.">>),
         LAMBDA semicolon :
         R(semicolon.p, Assign(expression, Parser_previous(p), value.v))))

\* expression ~ identifier ( args ) ;
Parser_parse_statement_tilde(p, expression) ==
    Then(Parser_consume(p, "TILDE", <<"Invalid statement.">>), LAMBDA tilde :
    Then(Parser_consume(tilde.p, "IDENTIFIER",
                        <<"Expect identifier after '~'.">>),
         LAMBDA identifier :
    Then(Parser_consume(identifier.p, "LPAREN", <<"Expect '('.">>),
         LAMBDA lparen :
    Then(Parser_parse_tilde_args_while(lparen.p, << >>), LAMBDA args :
    Then(Parser_consume(args.p, "RPAREN", <<"Expect ')'.">>), LAMBDA rparen :
    Then(Parser_consume(rparen.p, "SEMICOLON", <<"Expect ';'.">>),
         LAMBDA semicolon :
         R(semicolon.p, Tilde(expression, identifier.v, args.v))))))))

\* only `=' taken as an assignment operator
Parser_parse_statement_expression_plain(p) ==
    Then(Parser_self("_parse_expression", p), LAMBDA expression :
    Then(Parser_match(expression.p, "ASSIGN"), LAMBDA op :
         IF op.v THEN Parser_parse_statement_assign(op.p, expression.v)
         ELSE Parser_parse_statement_tilde(expression.p, expression.v)))

\* the statements that start with an expression: Assign and Tilde
Parser_parse_statement_expression(p) ==
    Then(Parser_self("_parse_expression", p), LAMBDA expression :
    Then(Parser_match_any(expression.p, ASSIGNMENT_OPS), LAMBDA op :
         IF op.v THEN Parser_parse_statement_assign(op.p, expression.v)
         ELSE Parser_parse_statement_tilde(expression.p, expression.v)))

\* self._match(t) is written as its two steps, _check(t) and _pop_token()
Parser_parse_statement(p) ==
    IF Parser_check(p, "BREAK")
    THEN Parser_parse_statement_break(Parser_pop_token(p))
    ELSE IF Parser_check(p, "CONTINUE")
    THEN Parser_parse_statement_continue(Parser_pop_token(p))
    ELSE IF Parser_check(p, "RETURN")
    THEN Parser_parse_statement_return(Parser_pop_token(p))
    ELSE IF Parser_check(p, "IF")
    THEN Parser_parse_statement_if(Parser_pop_token(p))
    ELSE IF Parser_check(p, "WHILE")
    THEN Parser_parse_statement_while(Parser_pop_token(p))
    ELSE IF Parser_check(p, "FOR")
    THEN Parser_parse_statement_for(Parser_pop_token(p))
    ELSE IF Parser_check(p, "PRINT")
    THEN Parser_parse_statement_print(Parser_pop_token(p))
    ELSE IF Parser_check(p, "REJECT")
    THEN Parser_parse_statement_reject(Parser_pop_token(p))
    ELSE IF Parser_check(p, "TARGET")
    THEN Parser_parse_statement_target(Parser_pop_token(p))
    ELSE IF Parser_check(p, "LBRACE")
    THEN Parser_self("_parse_block", Parser_pop_token(p))
    ELSE IF Parser_check(p, "SEMICOLON")
    THEN R(Parser_pop_token(p), Empty(Parser_previous(Parser_pop_token(p))))
    ELSE Parser_parse_statement_expression(p)

\* A loop iteration returns v = [more, item]: whether the loop goes on and,
\* if it does, the element this iteration appends.
Appending(item) == [more |-> TRUE, item |-> item]

LoopEnds == [more |-> FALSE, item |-> Absent]

\* one iteration of `while self._match_any(*VAR_TYPES)' of _parse_block
Parser_parse_block_declaration(p) ==
    Then(Parser_match_any(p, VAR_TYPES), LAMBDA m :
         IF ~m.v THEN R(p, LoopEnds)
         ELSE Then(Parser_self("_parse_declaration", m.p), LAMBDA declaration :
                   R(declaration.p, Appending(declaration.v))))

\* an iteration that takes a declaration where a statement is due
Parser_parse_block_statement_or_declaration(p) ==
    Then(Parser_match(p, "RBRACE"), LAMBDA m :
         IF m.v THEN R(m.p, LoopEnds)
         ELSE Then(Parser_match_any(p, VAR_TYPES), LAMBDA type :
              Then(IF type.v THEN Parser_self("_parse_declaration", type.p)
                   ELSE Parser_self("_parse_statement", p),
                   LAMBDA item : R(item.p, Appending(item.v)))))

\* an iteration that does not end the loop directly after the `{'
Parser_parse_block_statement_required(p) ==
    Then(IF Parser_previous(p).ttype = "LBRACE" THEN R(p, FALSE)
         ELSE Parser_match(p, "RBRACE"), LAMBDA m :
         IF m.v THEN R(m.p, LoopEnds)
         ELSE Then(Parser_self("_parse_statement", p), LAMBDA statement :
                   R(statement.p, Appending(statement.v))))

\* one iteration of `while not self._match(TokenType.RBRACE)' of _parse_block
Parser_parse_block_statement(p) ==
    Then(Parser_match(p, "RBRACE"), LAMBDA m :
         IF m.v THEN R(m.p, LoopEnds)
         ELSE Then(Parser_self("_parse_statement", p), LAMBDA statement :
                   R(statement.p, Appending(statement.v))))

Parser_parse_block_declarations(p, declarations) ==
    Then(Parser_parse_block_declaration(p), LAMBDA step :
         IF step.v.more
         THEN Parser_parse_block_declarations(
                  step.p, Append(declarations, step.v.item))
         ELSE R(step.p, declarations))

Parser_parse_block_statements(p, statements) ==
    Then(Parser_parse_block_statement(p), LAMBDA step :
         IF step.v.more
         THEN Parser_parse_block_statements(
                  step.p, Append(statements, step.v.item))
         ELSE R(step.p, statements))

Parser_parse_block(p) ==
    Then(Parser_parse_block_declarations(p, << >>), LAMBDA declarations :
    Then(Parser_parse_block_statements(declarations.p, << >>),
         LAMBDA statements :
         R(statements.p, Block(declarations.v, statements.v))))

(* Custom functions *)
RECURSIVE Parser_parse_function_type_commas(_, _)
RECURSIVE Parser_parse_function_declaration_arguments_while(_, _)

\* the commas consumed without being counted
RECURSIVE Parser_parse_function_type_commas_uncounted(_, _)
Parser_parse_function_type_commas_uncounted(p, n_dims) ==
    Then(Parser_match(p, "COMMA"), LAMBDA m :
         IF m.v THEN Parser_parse_function_type_commas_uncounted(m.p, n_dims)
         ELSE R(p, n_dims))

\* while self._match(TokenType.COMMA): n_dims += 1
Parser_parse_function_type_commas(p, n_dims) ==
    Then(Parser_match(p, "COMMA"), LAMBDA m :
         IF m.v THEN Parser_parse_function_type_commas(m.p, n_dims + 1)
         ELSE R(p, n_dims))

\* array[,,] <basic type>: `array' has been consumed
Parser_parse_function_type_array(p) ==
    Then(Parser_consume(p, "LBRACK", <<"Expect '[' after 'array'.">>),
         LAMBDA lbrack :
    Then(Parser_parse_function_type_commas(lbrack.p, 1), LAMBDA commas :
    Then(Parser_consume(commas.p, "RBRACK", <<"Expect ']'.">>),
         LAMBDA rbrack :
    Then(Parser_consume_any(rbrack.p, BASIC_TYPES, <<"Expect basic type.">>),
         LAMBDA dtype : R(dtype.p, <<dtype.v.ttype, commas.v>>)))))

\* <type>[,,] (the old array syntax): the type has been consumed
Parser_parse_function_type_dims(p, dtype) ==
    Then(Parser_match(p, "LBRACK"), LAMBDA m :
         IF ~m.v THEN R(p, <<dtype.ttype, 0>>)
         ELSE Then(Parser_parse_function_type_commas(m.p, 1), LAMBDA commas :
              Then(Parser_consume(commas.p, "RBRACK", <<"Expect ']'.">>),
                   LAMBDA rbrack : R(rbrack.p, <<dtype.ttype, commas.v>>))))

\* returns the pair <<dtype.ttype, n_dims>>
Parser_parse_function_type(p) ==
    IF Parser_peek(p).ttype \notin RETURN_TYPE_TTYPES
    THEN R(Raise(Parser_pop_token(p),
                 ParseError(Parser_peek(p),
                            <<"Invalid type ", Parser_peek(p).ttype, ".">>)),
           Absent)
    ELSE IF Parser_peek(p).ttype = "ARRAY"
    THEN Parser_parse_function_type_array(Parser_pop_token(p))
    ELSE Parser_parse_function_type_dims(Parser_pop_token(p), Parser_peek(p))

Parser_parse_return_type_declaration(p) ==
    Then(Parser_self("_parse_function_type", p), LAMBDA type :
         R(type.p, ReturnTypeDeclaration(type.v[1], type.v[2])))

Parser_parse_argument_declaration(p) ==
    Then(Parser_self("_parse_function_type", p), LAMBDA type :
    Then(Parser_consume(type.p, "IDENTIFIER", <<"Expect argument name.">>),
         LAMBDA identifier :
         R(identifier.p,
           ArgumentDeclaration(type.v[1], type.v[2], identifier.v))))

Parser_parse_function_declaration_arguments_while(p, args) ==
    Then(Parser_match(p, "COMMA"), LAMBDA m :
         IF ~m.v THEN R(p, args)
         ELSE Then(Parser_self("_parse_argument_declaration", m.p),
                   LAMBDA argument :
                   Parser_parse_function_declaration_arguments_while(
                       argument.p, Append(args, argument.v))))

Parser_parse_function_declaration_arguments(p) ==
    IF Parser_check(p, "RPAREN") THEN R(p, << >>)
    ELSE Then(Parser_self("_parse_argument_declaration", p), LAMBDA first :
              Parser_parse_function_declaration_arguments_while(
                  first.p, <<first.v>>))

Parser_parse_function_declaration_or_definition(p) ==
    Then(Parser_self("_parse_return_type_declaration", p),
         LAMBDA return_dtype :
    Then(Parser_consume(return_dtype.p, "IDENTIFIER",
                        <<"Expect identifier for function name.">>),
         LAMBDA identifier :
    Then(Parser_consume(identifier.p, "LPAREN",
                        <<"Expect '(' after function name.">>),
         LAMBDA lparen :
    Then(Parser_self("_parse_function_declaration_arguments", lparen.p),
         LAMBDA args :
    Then(Parser_consume(args.p, "RPAREN", <<"Expect ')'.">>), LAMBDA rparen :
    Then(Parser_match(rparen.p, "SEMICOLON"), LAMBDA semicolon :
         IF semicolon.v
         THEN R(semicolon.p,
                FunctionDeclaration(return_dtype.v, identifier.v, args.v))
         ELSE Then(Parser_consume(rparen.p, "LBRACE", <<"Expect '{'.">>),
                   LAMBDA lbrace :
              Then(Parser_self("_parse_block", lbrace.p), LAMBDA body :
                   R(body.p,
                     FunctionDefinition(
                         FunctionDeclaration(return_dtype.v, identifier.v,
                                             args.v),
                         body.v))))))))))

\* one iteration of the loop of _parse_function_block
Parser_parse_function_block_statement(p) ==
    Then(Parser_match(p, "RBRACE"), LAMBDA m :
         IF m.v THEN R(m.p, LoopEnds)
         ELSE Then(Parser_self("_parse_function_declaration_or_definition", p),
                   LAMBDA statement :
                   R(statement.p, Appending(statement.v))))

\* one iteration of the loop of _parse_var_declaration_no_assign_block
Parser_parse_var_declaration_no_assign_block_declaration(p, block_name) ==
    Then(Parser_match(p, "RBRACE"), LAMBDA m :
         IF m.v THEN R(m.p, LoopEnds)
         ELSE Then(Parser_consume_any(p, VAR_TYPES, <<"Expected type.">>),
                   LAMBDA type :
              Then(Parser_parse_declaration_no_assign(
                       type.p,
                       <<"Assigments not allowed in ", block_name,
                         " block.">>),
                   LAMBDA declaration :
                   R(declaration.p, Appending(declaration.v)))))

(* parse_program *)
\* the block keywords with `data' and `parameters' tested in each other's
\* place
BlockKeywords_swapped ==
    <<"FUNCTIONBLOCK", "PARAMETERSBLOCK", "TRANSFORMEDDATABLOCK", "DATABLOCK",
      "TRANSFORMEDPARAMETERSBLOCK", "MODELBLOCK", "GENERATEDQUANTITIESBLOCK">>

\* the block keywords in the order parse_program tests them
BlockKeywords ==
    <<"FUNCTIONBLOCK", "DATABLOCK", "TRANSFORMEDDATABLOCK", "PARAMETERSBLOCK",
      "TRANSFORMEDPARAMETERSBLOCK", "MODELBLOCK", "GENERATEDQUANTITIESBLOCK">>

NumBlocks == Len(BlockKeywords)

\* the seven local variables of parse_program, all None
NoBlocks == [k \in 1..NumBlocks |-> Absent]

\* the message of the _consume(TokenType.LBRACE, ...) of each block
ExpectBrace(k, block_name) ==
    CASE k = 1 -> <<"Expect '{' after 'functions'.">>
      [] k \in {2, 4} -> <<"Expect '{' after ", block_name, ".">>
      [] k = 3 -> <<"Expect '{' after 'transformed data'.">>
      [] k = 5 -> <<"Expect '{' after 'transformed parameters'.">>
      [] k = 6 -> <<"Expect '{' after 'model'.">>
      [] k = 7 -> <<"Expect '{' after 'generated quantities'.">>

\* the loop that parses the body of the k-th block
BlockLoop(k) ==
    CASE k = 1 -> "function_block"
      [] k \in {2, 4} -> "var_block"
      [] OTHER -> "block_declarations"

\* the k-th `if self._match(...)' of parse_program up to the opening brace:
\* v tells whether the keyword matched
Parser_parse_program_match(p, k) ==
    Then(Parser_match(p, BlockKeywords[k]), LAMBDA m :
         IF ~m.v THEN R(p, FALSE)
         ELSE Then(Parser_consume(m.p, "LBRACE",
                                  ExpectBrace(k, Parser_previous(m.p).ttype)),
                   LAMBDA lbrace : R(lbrace.p, TRUE)))

\* the block_name of _parse_var_declaration_no_assign_block
BlockName(k) == BlockKeywords[k]

\* one iteration of the loop that parses the body of a block
Parser_parse_program_iteration(p, loop, k) ==
    CASE loop = "function_block" -> Parser_parse_function_block_statement(p)
      [] loop = "var_block" ->
            Parser_parse_var_declaration_no_assign_block_declaration(
                p, BlockName(k))
      [] loop = "block_declarations" -> Parser_parse_block_declaration(p)
      [] loop = "block_statements" -> Parser_parse_block_statement(p)
\* self.<method>(): the method is looked up by name on the parser
Parser_self(method, p) ==
    CASE method = "_parse_expression" -> Parser_parse_expression(p)
      [] method = "_parse_precedence_10" -> Parser_parse_precedence_10(p)
      [] method = "_parse_precedence_9" -> Parser_parse_precedence_9(p)
      [] method = "_parse_precedence_8" -> Parser_parse_precedence_8(p)
      [] method = "_parse_precedence_7" -> Parser_parse_precedence_7(p)
      [] method = "_parse_precedence_6" -> Parser_parse_precedence_6(p)
      [] method = "_parse_precedence_5" -> Parser_parse_precedence_5(p)
      [] method = "_parse_precedence_4" -> Parser_parse_precedence_4(p)
      [] method = "_parse_precedence_3" -> Parser_parse_precedence_3(p)
      [] method = "_parse_precedence_2" -> Parser_parse_precedence_2(p)
      [] method = "_parse_precedence_1" -> Parser_parse_precedence_1(p)
      [] method = "_parse_precedence_0_5" -> Parser_parse_precedence_0_5(p)
      [] method = "_parse_precedence_0" -> Parser_parse_precedence_0(p)
      [] method = "_parse_slice" -> Parser_parse_slice(p)
      [] method = "_parse_primary" -> Parser_parse_primary(p)
      [] method = "_parse_declaration" -> Parser_parse_declaration(p)
      [] method = "_parse_array_dims" -> Parser_parse_array_dims(p)
      [] method = "_parse_statement" -> Parser_parse_statement(p)
      [] method = "_parse_block" -> Parser_parse_block(p)
      [] method = "_parse_function_declaration_or_definition" -> Parser_parse_function_declaration_or_definition(p)
      [] method = "_parse_function_declaration_arguments" -> Parser_parse_function_declaration_arguments(p)
      [] method = "_parse_return_type_declaration" -> Parser_parse_return_type_declaration(p)
      [] method = "_parse_function_type" -> Parser_parse_function_type(p)
      [] method = "_parse_argument_declaration" -> Parser_parse_argument_declaration(p)


(***************************************************************************)
(* Source strings the scanner is run on.                                   *)
(***************************************************************************)
Fragments ==
    { <<"t","r","a","n","s","f","o","r","m","e","d">>,
      <<"d","a","t","a">>,
      <<" ">>, <<"\n">>, <<"\r">>, <<";">>, <<"\"">>, <<"x">>, <<"1">>,
      <<"=">>, <<".">>, <<"*">>, <<"/">>, <<"&">> }

RECURSIVE Concat(_)
Concat(pieces) ==
    IF pieces = << >> THEN << >>
    ELSE Head(pieces) \o Concat(Tail(pieces))

RECURSIVE JoinWith(_, _)
JoinWith(texts, separator) ==
    IF texts = << >> THEN << >>
    ELSE IF Len(texts) = 1 THEN texts[1]
    ELSE texts[1] \o separator \o JoinWith(Tail(texts), separator)

GeneratedSources ==
    {Concat(p) : p \in UNION {[1..n -> Fragments] : n \in 0..MaxPieces}}

\* test_scan_source_keyword: every reserved keyword alone, and identifiers
IdentifierSources ==
    { <<"i","d","e","n","t","i","f","i","e","r","n","a","m","e">>,
      <<"i","d","e","n","t","i","f","i","e","r","_","n","a","m","e">>,
      <<"g","e","n","e","r","a","t","e","d">>,
      <<"q","u","a","n","t","i","t","i","e","s">>,
      <<"t","a","r","g","e","t">> }

\* numeric literals: digits, with a decimal point, an exponent, a trailing i
NumeralSources ==
    { <<"0">>, <<"1","2","3">>, <<"1","2","3","i">>, <<"1",".","5">>,
      <<"1","e","2">>, <<"2",".","5","i">> }

\* test_scan_source: every punctuation and operator lexeme with the token
\* type expected for it
OperatorLexemes ==
    { << <<"{">>, "LBRACE" >>, << <<"}">>, "RBRACE" >>,
      << <<"(">>, "LPAREN" >>, << <<")">>, "RPAREN" >>,
      << <<"[">>, "LBRACK" >>, << <<"]">>, "RBRACK" >>,
      << <<"<">>, "LABRACK" >>, << <<">">>, "RABRACK" >>,
      << <<",">>, "COMMA" >>, << <<";">>, "SEMICOLON" >>,
      << <<"|">>, "BAR" >>, << <<"?">>, "QMARK" >>,
      << <<":">>, "COLON" >>, << <<"!">>, "BANG" >>,
      << <<"-">>, "MINUS" >>, << <<"+">>, "PLUS" >>,
      << <<"^">>, "HAT" >>, << <<"'">>, "TRANSPOSE" >>,
      << <<"*">>, "TIMES" >>, << <<"/">>, "DIVIDE" >>,
      << <<"%">>, "MODULO" >>, << <<"%","/","%">>, "IDIVIDE" >>,
      << <<"\\">>, "LDIVIDE" >>, << <<".","*">>, "ELTTIMES" >>,
      << <<".","^">>, "ELTPOW" >>, << <<".","/">>, "ELTDIVIDE" >>,
      << <<"|","|">>, "OR" >>, << <<"&","&">>, "AND" >>,
      << <<"=","=">>, "EQUALS" >>, << <<"!","=">>, "NEQUALS" >>,
      << <<"<","=">>, "LEQ" >>, << <<">","=">>, "GEQ" >>,
      << <<"~">>, "TILDE" >>, << <<"=">>, "ASSIGN" >>,
      << <<"+","=">>, "PLUSASSIGN" >>, << <<"-","=">>, "MINUSASSIGN" >>,
      << <<"*","=">>, "TIMESASSIGN" >>, << <<"/","=">>, "DIVIDEASSIGN" >>,
      << <<".","*","=">>, "ELTTIMESASSIGN" >>,
      << <<".","/","=">>, "ELTDIVIDEASSIGN" >>,
      << <<"<","-">>, "ARROWASSIGN" >> }

OperatorSources == {op[1] : op \in OperatorLexemes}

ScanSources ==
    GeneratedSources \cup KeywordTexts \cup IdentifierSources
        \cup NumeralSources \cup OperatorSources


(***************************************************************************)
(* Expressions the parser is run on: operator chains over the operands     *)
(* a, b, c, ...  written as source text and scanned.                       *)
(***************************************************************************)
MaxOpsAll == 2      \* operators in a chain over all binary operators
MaxOps == 3         \* operators in a chain over one operator per level
MaxPrefixOps == 2   \* operators in a chain with prefix operators
MaxCallTokens == 5  \* tokens between the parentheses of a call
MaxGroups == 2      \* bracket groups after a primary
MaxEntries == 2     \* entries in a bracket group

Operands == <<"a", "b", "c", "d", "e">>

\* the binary operators by level, loosest first (levels 9 .. 2)
BinaryLevels ==
    << {"OR"}, {"AND"}, {"EQUALS", "NEQUALS"},
       {"LABRACK", "LEQ", "RABRACK", "GEQ"}, {"PLUS", "MINUS"},
       {"TIMES", "DIVIDE", "MODULO"}, {"LDIVIDE"}, {"ELTTIMES", "ELTDIVIDE"} >>

LeftAssociative == UNION {BinaryLevels[i] : i \in 1..Len(BinaryLevels)}

PrefixOperators == {"BANG", "MINUS", "PLUS"}

\* the source text of an operator
OperatorText(ttype) ==
    CASE ttype = "OR" -> <<"|", "|">>
      [] ttype = "AND" -> <<"&", "&">>
      [] ttype = "EQUALS" -> <<"=", "=">>
      [] ttype = "NEQUALS" -> <<"!", "=">>
      [] ttype = "LABRACK" -> <<"<">>
      [] ttype = "LEQ" -> <<"<", "=">>
      [] ttype = "RABRACK" -> <<">">>
      [] ttype = "GEQ" -> <<">", "=">>
      [] ttype = "PLUS" -> <<"+">>
      [] ttype = "MINUS" -> <<"-">>
      [] ttype = "TIMES" -> <<"*">>
      [] ttype = "DIVIDE" -> <<"/">>
      [] ttype = "MODULO" -> <<"%">>
      [] ttype = "LDIVIDE" -> <<"\\">>
      [] ttype = "ELTTIMES" -> <<".", "*">>
      [] ttype = "ELTDIVIDE" -> <<".", "/">>
      [] ttype = "HAT" -> <<"^">>
      [] ttype = "BANG" -> <<"!">>
      [] ttype = "QMARK" -> <<"?">>
      [] ttype = "COLON" -> <<":">>
      [] ttype = "NONE" -> << >>

\* operand i of a chain, behind its prefix operator (if any)
OperandText(prefix, i) ==
    IF prefix = "NONE" THEN <<Operands[i]>>
    ELSE OperatorText(prefix) \o <<Operands[i]>>

\* the text `a OP1 b OP2 c ...' of a chain: ops are the binary operators,
\* prefixes the prefix operator ("NONE" for none) of each operand
RECURSIVE ChainText(_, _, _)
ChainText(ops, prefixes, n) ==
    IF n = 0 THEN OperandText(prefixes[1], 1)
    ELSE ChainText(ops, prefixes, n - 1) \o <<" ">> \o OperatorText(ops[n])
             \o <<" ">> \o OperandText(prefixes[n + 1], n + 1)

NoPrefixes == [i \in 1..Len(Operands) |-> "NONE"]

Chains(operators, max) ==
    {ChainText(ops, NoPrefixes, Len(ops)) :
        ops \in UNION {[1..n -> operators] : n \in 0..max}}

PrefixChains(operators, prefixes, max) ==
    UNION {{ChainText(ops, pre, n) :
                ops \in [1..n -> operators], pre \in [1..(n + 1) -> prefixes]} :
           n \in 0..max}

\* a ? b : c   and its nestings, with a binary operator in each position
TernarySources ==
    LET q == <<" ", "?", " ">>
        c == <<" ", ":", " ">>
        or == <<" ", "|", "|", " ">>
        plus == <<" ", "+", " ">>
        v(i) == <<Operands[i]>>
    IN  { v(1) \o q \o v(2) \o c \o v(3),
          v(1) \o q \o v(2) \o c \o v(3) \o q \o v(4) \o c \o v(5),
          v(1) \o q \o v(2) \o q \o v(3) \o c \o v(4) \o c \o v(5),
          v(1) \o or \o v(2) \o q \o v(3) \o c \o v(4),
          v(1) \o q \o v(2) \o or \o v(3) \o c \o v(4),
          v(1) \o q \o v(2) \o c \o v(3) \o or \o v(4),
          v(1) \o plus \o v(2) \o q \o v(3) \o c \o v(4) \o plus \o v(5),
          v(1) \o q \o v(2) \o c \o v(3) \o plus \o v(4) \o q \o v(5) \o c
              \o v(1) }

\* postfix operators (call, indexing) next to prefix and binary operators
PostfixSources ==
    { <<"-", "a", "[", "1", "]", " ", "^", " ", "b">>,
      <<"a", " ", "^", " ", "b", "[", "1", "]">>,
      <<"a", " ", "+", " ", "b", "(", "c", ")", " ", "*", " ", "d">>,
      <<"!", "a", "(", "b", ")">>,
      <<"a", "[", "1", "]", "[", "2", "]", " ", "^", " ", "b", "[", "3", "]",
        " ", ".", "*", " ", "c">> }

\* x == y && z != w  (test_parse_precedences)
ExampleSources ==
    { <<"a", " ", "=", "=", " ", "b", " ", "&", "&", " ", "c", " ", "!", "=",
        " ", "d">>,
      <<"a", " ", "+", " ", "b", " ", "*", " ", "c", " ", "=", "=", " ", "-",
        "d", " ", "^", " ", "e", " ", "*", " ", "a">> }

OnePerLevel ==
    {"OR", "AND", "EQUALS", "LABRACK", "PLUS", "TIMES", "LDIVIDE", "ELTTIMES",
     "HAT"}

\* calls f(...) whose argument list is any sequence of at most MaxCallTokens
\* operands, commas and bars; the operand at place i is the i-th letter
CallPieces == {"x", ",", "|"}

CallText(shape) ==
    <<"f", "(">>
        \o [i \in 1..Len(shape) |->
               IF shape[i] = "x" THEN <<"a", "b", "c", "d", "e", "g", "h">>[i]
               ELSE shape[i]]
        \o <<")">>

CallSources ==
    {CallText(shape) :
        shape \in UNION {[1..n -> CallPieces] : n \in 0..MaxCallTokens}}

\* a primary followed by 1..MaxGroups bracket groups of 0..MaxEntries
\* entries, each entry an expression or `left:right'
GroupTexts ==
    { <<"[">> \o JoinWith(entries, <<",">>) \o <<"]">> :
        entries \in UNION {[1..n -> { <<"b">>, <<"b", ":", "c">> }] :
                              n \in 0..MaxEntries} }

RECURSIVE GroupChains(_)
GroupChains(n) ==
    IF n = 0 THEN { << >> }
    ELSE {chain \o group : chain \in GroupChains(n - 1), group \in GroupTexts}

\* test_indexes, and ranges with one bound left out
EmptyRangeSources ==
    { <<"a", "[", " ", ":", " ", "]", "[", " ", ":", " ", "]">>,
      <<"a", "[", ":", "]">>, <<"a", "[", "b", ":", "]">>,
      <<"a", "[", ":", "c", "]">> }

IndexSources ==
    {<<"a">> \o chain :
        chain \in UNION {GroupChains(n) : n \in 1..MaxGroups}}
        \cup EmptyRangeSources

PostfixOnlySources == CallSources \cup IndexSources

ExpressionSources ==
    Chains(LeftAssociative \cup {"HAT"}, MaxOpsAll)
        \cup Chains(OnePerLevel, MaxOps)
        \cup PrefixChains({"PLUS", "TIMES", "ELTTIMES", "HAT"},
                          {"NONE", "MINUS", "BANG"}, MaxPrefixOps)
        \cup TernarySources
        \cup PostfixSources
        \cup ExampleSources

(***************************************************************************)
(* scan_tokens as a state machine: the call, one action per iteration of   *)
(* its loop, and the return.                                               *)
(***************************************************************************)
NoParser == Parser_init(<< >>)

IdleParser ==
    /\ parser = NoParser
    /\ parse_pc = "none"
    /\ turn = 0
    /\ blocks = NoBlocks
    /\ frame = Block(<< >>, << >>)
    /\ result = Absent

InitScanner(sources) ==
    /\ scanner \in {Scanner_init(source) : source \in sources}
    /\ scan_pc = "new"
    /\ scan_exc = NoExc
    /\ scan_calls = 0

CallScanTokens ==
    /\ scan_pc \in {"new", "returned"}
    /\ parse_pc = "none"
    /\ scan_calls < MaxCalls
    /\ scan_pc' = "loop"
    /\ scan_calls' = scan_calls + 1
    /\ UNCHANGED <<scanner, scan_exc>>
    /\ UNCHANGED parse_vars

ScanTokensLoop ==
    /\ scan_pc = "loop"
    /\ ~Scanner_is_at_end(scanner, 0)
    /\ \E s \in {Scanner_scan_tokens_iteration(scanner)} :
           /\ scanner' = [s EXCEPT !.exc = NoExc]
           /\ scan_exc' = s.exc
           /\ scan_pc' = IF Raised(s) THEN "raised" ELSE "loop"
    /\ UNCHANGED scan_calls
    /\ UNCHANGED parse_vars

ScanTokensReturn ==
    /\ scan_pc = "loop"
    /\ Scanner_is_at_end(scanner, 0)
    /\ scanner' = Scanner_scan_tokens_append_eof(scanner)
    /\ scan_pc' = "returned"
    /\ UNCHANGED <<scan_exc, scan_calls>>
    /\ UNCHANGED parse_vars

InitScan == InitScanner(ScanSources) /\ IdleParser

NextScan == CallScanTokens \/ ScanTokensLoop \/ ScanTokensReturn

SpecScan == InitScan /\ [][NextScan]_vars

(***************************************************************************)
(* Properties of the scanner, checked under SpecScan.                      *)
(***************************************************************************)
EofCount(tokens) == Cardinality({i \in 1..Len(tokens) : tokens[i].ttype = "EOF"})

\* C1: scan_tokens is total apart from scan errors: the only exceptions it
\* raises are the two scan errors (unterminated string, unrecognized
\* character), and the token list it returns ends with an EOF token and holds
\* no other EOF token.
C1_ScanTotal ==
    /\ scan_pc = "raised" => scan_exc.type \in {"RuntimeError", "ValueError"}
    /\ scan_pc = "returned" /\ scan_calls = 1 =>
          /\ scanner.tokens # << >>
          /\ scanner.tokens[Len(scanner.tokens)].ttype = "EOF"
          /\ EofCount(scanner.tokens) = 1

\* line and column of the character at a 0-based offset of the source
LineOf(source, offset) ==
    1 + Cardinality({i \in 1..offset : source[i] = "\n"})

ColumnOf(source, offset) ==
    LET newlines == {i \in 1..offset : source[i] = "\n"}
        last == IF newlines = {} THEN 0
                ELSE CHOOSE i \in newlines : \A j \in newlines : j <= i
    IN  1 + (offset - last)

\* C9: every token emitted by the first scan_tokens call (EOF included)
\* carries the line and the column of its first character: line is 1 plus
\* the newlines before it, column is 1 plus the characters since the last
\* newline; EOF is placed one past the last consumed character.
C9_TokenPosition ==
    [][(scan_calls' = 1 /\ Len(scanner'.tokens) > Len(scanner.tokens)) =>
          LET token == scanner'.tokens[Len(scanner'.tokens)]
              first == IF token.ttype = "EOF" THEN scanner'.current
                       ELSE scanner'.start
          IN  /\ token.line = LineOf(scanner'.source, first)
              /\ token.column = ColumnOf(scanner'.source, first)]_vars

\* an identifier run: identifier characters only, the first one a letter
IsIdentifierRun(text) ==
    /\ text # << >>
    /\ is_identifier_char(text[1], TRUE)
    /\ \A i \in 1..Len(text) : is_identifier_char(text[i], FALSE)

\* C10: a reserved keyword alone scans to one token of the mapped type whose
\* lexeme is the whole keyword, then EOF at column length + 1; an identifier
\* run that is not a keyword scans to one IDENTIFIER token (and EOF).
C10_KeywordAlone ==
    LET source == scanner.source
        expected == IF source \in KeywordTexts THEN KeywordType(source)
                    ELSE "IDENTIFIER"
    IN  (source \in KeywordTexts \/ IsIdentifierRun(source)) =>
          /\ scan_pc # "raised"
          /\ scan_pc = "returned" /\ scan_calls = 1 =>
                scanner.tokens =
                    << [ttype |-> expected, line |-> 1, column |-> 1,
                        lexeme |-> source, literal |-> None],
                       [ttype |-> "EOF", line |-> 1,
                        column |-> Len(source) + 1, lexeme |-> << >>,
                        literal |-> None] >>

RealValue(integer_part, non_integer_part, exponent) ==
    [kind |-> "RealValue", integer_part |-> integer_part,
     non_integer_part |-> non_integer_part, exponent |-> exponent]

ComplexValue(imag) == [kind |-> "ComplexValue", imag |-> imag]

\* the token type the shape of a numeric literal calls for
NumeralType(text) ==
    IF text[Len(text)] = "i" THEN "IMAGNUMERAL"
    ELSE IF \E i \in 1..Len(text) : text[i] \in {".", "e"} THEN "REALNUMERAL"
    ELSE "INTNUMERAL"

\* C11: a numeric literal scans to one token whose lexeme is the whole
\* literal, followed by EOF: INTNUMERAL with the integer value for digits
\* only, REALNUMERAL for a decimal point or an exponent, IMAGNUMERAL for a
\* trailing i; `123i' gives IMAGNUMERAL with ComplexValue(RealValue(123, 0, 1)).
C11_Numerals ==
    LET source == scanner.source
    IN  source \in NumeralSources =>
          /\ scan_pc # "raised"
          /\ scan_pc = "returned" /\ scan_calls = 1 =>
                /\ Len(scanner.tokens) = 2
                /\ scanner.tokens[1].ttype = NumeralType(source)
                /\ scanner.tokens[1].lexeme = source
                /\ scanner.tokens[2].ttype = "EOF"
                /\ NumeralType(source) = "INTNUMERAL" =>
                      scanner.tokens[1].literal = IntLiteral(int(source))
                /\ source = <<"1","2","3","i">> =>
                      scanner.tokens[1].literal =
                          ComplexValue(RealValue(123, 0, 1))

\* what the scanner does with digits: they alone are one INTNUMERAL token
\* with their integer value, and the scan of a numeral stops at the first
\* character that is no digit
C11_DigitsOnly ==
    LET source == scanner.source
    IN  source \in NumeralSources /\ scan_pc = "returned" /\ scan_calls = 1 =>
          /\ scanner.tokens[1].ttype = "INTNUMERAL"
          /\ \A i \in 1..Len(scanner.tokens[1].lexeme) :
                 isdigit(scanner.tokens[1].lexeme[i])
          /\ scanner.tokens[1].literal = IntLiteral(int(scanner.tokens[1].lexeme))

\* C12: a source that is exactly one punctuation or operator lexeme scans to
\* one token of the expected type whose lexeme is the whole source (the
\* longest match), followed by EOF on line 1 at column length + 1.
C12_OperatorAlone ==
    \A op \in OperatorLexemes :
        scanner.source = op[1] =>
          /\ scan_pc # "raised"
          /\ scan_pc = "returned" /\ scan_calls = 1 =>
                scanner.tokens =
                    << Token(op[2], 1, 1, op[1], None),
                       Token("EOF", 1, Len(op[1]) + 1, << >>, None) >>

\* the three-character operator `.*=' has been scanned to one token
C12_Witness ==
    /\ scanner.source = <<".", "*", "=">>
    /\ scan_pc = "returned"
    /\ Len(scanner.tokens) = 2
    /\ scanner.tokens[1].ttype = "ELTTIMESASSIGN"

\* the characters of the words: identifier characters
IsWordText(text) == \A i \in 1..Len(text) : is_identifier_char(text[i], FALSE)

\* a word, or two words with one blank between them
IsKeywordLexeme(lexeme) ==
    \/ IsWordText(lexeme)
    \/ \E i \in 2..(Len(lexeme) - 1) :
          /\ lexeme[i] \in {" ", "\t"}
          /\ IsWordText(SubSeq(lexeme, 1, i - 1))
          /\ IsWordText(SubSeq(lexeme, i + 1, Len(lexeme)))

WordTypes == {"IDENTIFIER"} \cup {KeywordType(text) : text \in KeywordTexts}

\* C26: after the first word of a two-word keyword the one extra character
\* the scanner consumes is always a whitespace separator: a character such
\* as `;' is never absorbed into the token's lexeme or lost, a newline
\* consumed there still increments the line counter, and at the end of the
\* input nothing further is consumed.
C26_SeparatorOnly ==
    /\ scan_exc.type # "IndexError"
    /\ scanner.current <= Len(scanner.source)
    /\ \A i \in 1..Len(scanner.tokens) :
          scanner.tokens[i].ttype \in WordTypes =>
              IsKeywordLexeme(scanner.tokens[i].lexeme)
    /\ scan_pc \in {"loop", "returned"} /\ scan_calls = 1
          /\ (\A i \in 1..Len(scanner.source) : scanner.source[i] # "\"") =>
          scanner.line = LineOf(scanner.source, scanner.current)

\* C27: the tokens a Scanner has produced are final and end in a single EOF
\* token: once scan_tokens has returned, no later operation on the Scanner,
\* a second scan_tokens call in particular, appends or alters a token, and
\* every returned list holds exactly one EOF token.
C27_ScanTwice ==
    /\ [](scan_pc = "returned" => EofCount(scanner.tokens) = 1)
    /\ [][scan_calls >= 1 /\ scan_pc = "returned" =>
              scanner'.tokens = scanner.tokens]_vars
(***************************************************************************)
(* _parse_expression called on the tokens of an expression.                *)
(***************************************************************************)
ExpressionTokens ==
    {Scanner_scan_tokens(Scanner_init(source)).tokens :
        source \in ExpressionSources}

InitExpr ==
    /\ scanner = Scanner_init(<< >>)
    /\ scan_pc = "none"
    /\ scan_exc = NoExc
    /\ scan_calls = 0
    /\ parser \in {Parser_init(token_list) : token_list \in ExpressionTokens}
    /\ parse_pc = "new"
    /\ turn = 0
    /\ blocks = NoBlocks
    /\ frame = Block(<< >>, << >>)
    /\ result = Absent

CallParseExpression ==
    /\ parse_pc = "new"
    /\ scan_pc = "none"
    /\ \E expression \in {Parser_parse_expression(parser)} :
           /\ parser' = expression.p
           /\ parse_pc' = IF Raised(expression.p) THEN "raised" ELSE "returned"
           /\ result' = IF Raised(expression.p) THEN Absent ELSE expression.v
    /\ UNCHANGED <<turn, blocks, frame>>
    /\ UNCHANGED scan_vars

NextExpr == CallParseExpression

SpecExpr == InitExpr /\ [][NextExpr]_vars


(***************************************************************************)
(* _parse_expression called on the tokens of a call or an indexing chain.  *)
(***************************************************************************)
PostfixTokens ==
    {Scanner_scan_tokens(Scanner_init(source)).tokens :
        source \in PostfixOnlySources}

InitPostfix ==
    /\ scanner = Scanner_init(<< >>)
    /\ scan_pc = "none"
    /\ scan_exc = NoExc
    /\ scan_calls = 0
    /\ parser \in {Parser_init(token_list) : token_list \in PostfixTokens}
    /\ parse_pc = "new"
    /\ turn = 0
    /\ blocks = NoBlocks
    /\ frame = Block(<< >>, << >>)
    /\ result = Absent

SpecPostfix == InitPostfix /\ [][NextExpr]_vars
(***************************************************************************)
(* Properties of the expression grammar, checked under SpecExpr.           *)
(***************************************************************************)
IsOperand(token) == token.ttype = "IDENTIFIER"

\* the tokens are  a OP b OP c EOF  with both operators of type ttype
IsSameOperatorChain(tokens, ttypes) ==
    /\ Len(tokens) = 6
    /\ IsOperand(tokens[1]) /\ IsOperand(tokens[3]) /\ IsOperand(tokens[5])
    /\ tokens[2].ttype \in ttypes
    /\ tokens[4].ttype = tokens[2].ttype

Leaf(token) == [node |-> "Variable", identifier |-> token]

Binary(left, operator, right) ==
    [node |-> "ArithmeticBinary", left |-> left, operator |-> operator,
     right |-> right]

\* C2: for every left-associative binary operator OP, parsing `a OP b OP c`
\* returns ArithmeticBinary(ArithmeticBinary(a, OP, b), OP, c), never
\* ArithmeticBinary(a, OP, ArithmeticBinary(b, OP, c)).
C2_LeftAssociative ==
    LET tokens == parser.token_list
    IN  (parse_pc # "new" /\ IsSameOperatorChain(tokens, LeftAssociative)) =>
          /\ parse_pc = "returned"
          /\ parser.current = 5
          /\ result = Binary(Binary(Leaf(tokens[1]), tokens[2], Leaf(tokens[3])),
                             tokens[4], Leaf(tokens[5]))
          /\ result # Binary(Leaf(tokens[1]), tokens[2],
                             Binary(Leaf(tokens[3]), tokens[4], Leaf(tokens[5])))

\* every left-associative operator has been parsed in a chain a OP b OP c
C2_Witness ==
    /\ parse_pc = "returned"
    /\ IsSameOperatorChain(parser.token_list, {"ELTDIVIDE"})
    /\ result.left.node = "ArithmeticBinary"

\* the tokens are  a ? b : c ? d : e EOF
IsTernaryChain(tokens) ==
    /\ Len(tokens) = 10
    /\ \A i \in {1, 3, 5, 7, 9} : IsOperand(tokens[i])
    /\ tokens[2].ttype = "QMARK" /\ tokens[4].ttype = "COLON"
    /\ tokens[6].ttype = "QMARK" /\ tokens[8].ttype = "COLON"

Conditional(left, left_operator, middle, right_operator, right) ==
    [node |-> "Ternary", left |-> left, left_operator |-> left_operator,
     middle |-> middle, right_operator |-> right_operator, right |-> right]

\* C3: `^' and the ternary operator are right-associative: `a ^ b ^ c'
\* parses to ArithmeticBinary(a, ^, ArithmeticBinary(b, ^, c)) and
\* `a ? b : c ? d : e' to Ternary(a, b, Ternary(c, d, e)).
C3_RightAssociative ==
    LET tokens == parser.token_list
    IN  /\ (parse_pc # "new" /\ IsSameOperatorChain(tokens, {"HAT"})) =>
              /\ parse_pc = "returned"
              /\ parser.current = 5
              /\ result = Binary(Leaf(tokens[1]), tokens[2],
                                 Binary(Leaf(tokens[3]), tokens[4],
                                        Leaf(tokens[5])))
        /\ (parse_pc # "new" /\ IsTernaryChain(tokens)) =>
              /\ parse_pc = "returned"
              /\ parser.current = 9
              /\ result = Conditional(Leaf(tokens[1]), tokens[2],
                                      Leaf(tokens[3]), tokens[4],
                                      Conditional(Leaf(tokens[5]), tokens[6],
                                                  Leaf(tokens[7]), tokens[8],
                                                  Leaf(tokens[9])))

C3_Witness ==
    /\ parse_pc = "returned"
    /\ IsTernaryChain(parser.token_list)
    /\ result.right.node = "Ternary"

(***************************************************************************)
(* The grouping that the level order prescribes for the tokens lo .. hi of *)
(* an operator chain: the loosest operator present is the root.            *)
(***************************************************************************)
EndsOperand(token) ==
    token.ttype \in {"IDENTIFIER", "INTNUMERAL", "RBRACK", "RPAREN"}

\* positions lo < i <= hi that hold a binary operator of the given types
BinaryAt(tokens, lo, hi, ttypes) ==
    {i \in (lo + 1)..hi :
        tokens[i].ttype \in ttypes /\ EndsOperand(tokens[i - 1])}

\* the `:' that closes the `?' at position q
ClosingColon(tokens, q, hi) ==
    LET count(ttype, i) ==
            Cardinality({j \in (q + 1)..(i - 1) : tokens[j].ttype = ttype})
        closing == {i \in (q + 1)..hi :
                       /\ tokens[i].ttype = "COLON"
                       /\ count("QMARK", i) = count("COLON", i)}
    IN  CHOOSE i \in closing : \A j \in closing : i <= j

\* the loosest level (index into BinaryLevels) with an operator in lo .. hi
LoosestLevel(tokens, lo, hi) ==
    LET present == {k \in 1..Len(BinaryLevels) :
                       BinaryAt(tokens, lo, hi, BinaryLevels[k]) # {}}
    IN  IF present = {} THEN 0
        ELSE CHOOSE k \in present : \A j \in present : k <= j

Atom(token) ==
    IF token.ttype = "IDENTIFIER" THEN Leaf(token)
    ELSE [node |-> "Literal", token |-> token]

RECURSIVE Grouping(_, _, _)
Grouping(tokens, lo, hi) ==
    LET questions == {i \in lo..hi : tokens[i].ttype = "QMARK"}
        q == CHOOSE i \in questions : \A j \in questions : i <= j
        c == ClosingColon(tokens, q, hi)
        level == LoosestLevel(tokens, lo, hi)
        at == BinaryAt(tokens, lo, hi, BinaryLevels[level])
        last == CHOOSE i \in at : \A j \in at : j <= i
        hats == BinaryAt(tokens, lo, hi, {"HAT"})
        first == CHOOSE i \in hats : \A j \in hats : i <= j
    IN  IF questions # {}
        THEN Conditional(Grouping(tokens, lo, q - 1), tokens[q],
                         Grouping(tokens, q + 1, c - 1), tokens[c],
                         Grouping(tokens, c + 1, hi))
        ELSE IF level # 0
        THEN Binary(Grouping(tokens, lo, last - 1), tokens[last],
                    Grouping(tokens, last + 1, hi))
        ELSE IF tokens[lo].ttype \in PrefixOperators
        THEN [node |-> "Unary", operator |-> tokens[lo],
              right |-> Grouping(tokens, lo + 1, hi)]
        ELSE IF hats # {}
        THEN Binary(Grouping(tokens, lo, first - 1), tokens[first],
                    Grouping(tokens, first + 1, hi))
        ELSE IF tokens[hi].ttype = "RBRACK"
        THEN [node |-> "Indexing", callee |-> Grouping(tokens, lo, hi - 3),
              closing_bracket |-> tokens[hi],
              indices |-> <<Atom(tokens[hi - 1])>>]
        ELSE IF tokens[hi].ttype = "RPAREN"
        THEN [node |-> "FunctionApplication",
              callee |-> Grouping(tokens, lo, hi - 3),
              closing_paren |-> tokens[hi],
              arguments |-> <<Atom(tokens[hi - 1])>>]
        ELSE Atom(tokens[lo])

\* a prefix operator written as the right operand of `^', which the level
\* order does not allow without parentheses
PrefixUnderHat(tokens) ==
    \E i \in 1..(Len(tokens) - 1) :
        /\ tokens[i].ttype = "HAT"
        /\ tokens[i + 1].ttype \in PrefixOperators

\* C4: operators group by the level order (ternary loosest, then ||, &&,
\* == !=, comparisons, + -, * / %, \, .* ./, prefix ! - +, ^, postfix
\* tightest): the parse of an operator chain consumes the whole chain and
\* returns the tree in which every tighter operator is an operand of the
\* looser one, whatever the order in the source.
C4_LevelOrder ==
    LET tokens == parser.token_list
    IN  parse_pc # "new" =>
          IF PrefixUnderHat(tokens) THEN parse_pc = "raised"
          ELSE /\ parse_pc = "returned"
               /\ parser.current = Len(tokens) - 1
               /\ result = Grouping(tokens, 1, Len(tokens) - 1)

\* a * b + c * d : the products are the operands of the sum
C4_Witness ==
    /\ parse_pc = "returned"
    /\ result.node = "ArithmeticBinary"
    /\ result.operator.ttype = "PLUS"
    /\ result.left.node = "ArithmeticBinary"
    /\ result.left.operator.ttype = "TIMES"
    /\ result.right.node = "ArithmeticBinary"
    /\ result.right.operator.ttype = "TIMES"


(***************************************************************************)
(* Calls f(...), read off the token list: token 1 is the callee, token 2   *)
(* the `(', the last token before EOF the `)'.                             *)
(***************************************************************************)
IsCall ==
    LET tokens == parser.token_list
    IN  /\ Len(tokens) >= 4
        /\ tokens[1].ttype = "IDENTIFIER"
        /\ tokens[2].ttype = "LPAREN"
        /\ tokens[Len(tokens) - 1].ttype = "RPAREN"
        /\ \A i \in 3..(Len(tokens) - 2) :
               tokens[i].ttype \in {"IDENTIFIER", "COMMA", "BAR"}

\* the tokens from lo to hi are operands separated by commas
IsCommaList(lo, hi) ==
    /\ lo <= hi
    /\ (hi - lo) % 2 = 0
    /\ \A i \in lo..hi :
          parser.token_list[i].ttype =
              IF (i - lo) % 2 = 0 THEN "IDENTIFIER" ELSE "COMMA"

\* the operands of such a list in order (none when hi < lo)
ListOperands(lo, hi) ==
    [j \in 1..(IF hi < lo THEN 0 ELSE (hi - lo) \div 2 + 1) |->
        Variable(parser.token_list[lo + 2 * (j - 1)])]

\* C18: in a call f(...) a `|' directly after the first argument gives
\* FunctionConditionalApplication with that argument as outcome and the
\* comma-separated expressions after `|' as parameters in order; without
\* `|' the call is a FunctionApplication with all arguments in order; a
\* `|' anywhere else raises ParseError.
C18_ConditionalCall ==
    IsCall /\ parse_pc \in {"returned", "raised"} =>
       LET tokens == parser.token_list
           last == Len(tokens) - 2
           callee == Variable(tokens[1])
       IN  IF last = 2 \/ IsCommaList(3, last)
           THEN /\ parse_pc = "returned"
                /\ result = FunctionApplication(callee, tokens[last + 1],
                                                ListOperands(3, last))
           ELSE IF /\ last >= 4
                   /\ tokens[3].ttype = "IDENTIFIER"
                   /\ tokens[4].ttype = "BAR"
                   /\ last = 4 \/ IsCommaList(5, last)
           THEN /\ parse_pc = "returned"
                /\ result.node = "FunctionConditionalApplication"
                /\ result.callee = callee
                /\ result.outcome = Variable(tokens[3])
                /\ result.parameters = ListOperands(5, last)
           ELSE /\ parse_pc = "raised"
                /\ parser.exc.type = "ParseError"

\* f(a | c, e) has been parsed
C18_Witness ==
    /\ IsCall
    /\ parse_pc = "returned"
    /\ result.node = "FunctionConditionalApplication"
    /\ Len(result.parameters) = 2

\* f(a, c | e) has raised at the `|'
C18_WitnessRaised ==
    /\ IsCall
    /\ parse_pc = "raised"
    /\ Len(parser.token_list) = 9
    /\ parser.token_list[6].ttype = "BAR"
    /\ Parser_peek(parser).ttype = "BAR"

(***************************************************************************)
(* Indexing chains, read off the token list: token 1 is the primary, the   *)
(* bracket groups follow it up to EOF.                                     *)
(***************************************************************************)
\* the first position from lo on that holds a token of the type (there is
\* one: EOF ends the list)
FirstOf(ttypes, lo) ==
    CHOOSE i \in lo..Len(parser.token_list) :
        /\ parser.token_list[i].ttype \in ttypes \cup {"EOF"}
        /\ \A j \in lo..(i - 1) :
               parser.token_list[j].ttype \notin ttypes \cup {"EOF"}

\* an entry of a group is one operand, or `left : right'
IsEntry(lo, hi) ==
    LET tokens == parser.token_list
    IN  \/ hi = lo /\ tokens[lo].ttype = "IDENTIFIER"
        \/ /\ hi = lo + 2
           /\ tokens[lo].ttype = "IDENTIFIER"
           /\ tokens[lo + 1].ttype = "COLON"
           /\ tokens[hi].ttype = "IDENTIFIER"

EntryNode(lo, hi) ==
    IF hi = lo THEN Variable(parser.token_list[lo])
    ELSE Slice(Variable(parser.token_list[lo]), Variable(parser.token_list[hi]))

\* the entries between lo and hi, separated by commas: whether each is an
\* entry, and their nodes in order
RECURSIVE AreEntries(_, _)
AreEntries(lo, hi) ==
    IF lo > hi THEN TRUE
    ELSE LET end == FirstOf({"COMMA", "RBRACK"}, lo) - 1
         IN  /\ IsEntry(lo, end)
             /\ IF end = hi THEN TRUE
                ELSE end + 1 < hi /\ AreEntries(end + 2, hi)

RECURSIVE EntryNodes(_, _)
EntryNodes(lo, hi) ==
    IF lo > hi THEN << >>
    ELSE LET end == FirstOf({"COMMA", "RBRACK"}, lo) - 1
         IN  <<EntryNode(lo, end)>> \o EntryNodes(end + 2, hi)

\* from position pos on the tokens are bracket groups of entries up to EOF
RECURSIVE AreGroups(_)
AreGroups(pos) ==
    LET tokens == parser.token_list
    IN  IF tokens[pos].ttype = "EOF" THEN TRUE
        ELSE /\ tokens[pos].ttype = "LBRACK"
             /\ tokens[FirstOf({"RBRACK"}, pos)].ttype = "RBRACK"
             /\ AreEntries(pos + 1, FirstOf({"RBRACK"}, pos) - 1)
             /\ AreGroups(FirstOf({"RBRACK"}, pos) + 1)

IsIndexChain ==
    /\ Len(parser.token_list) >= 4
    /\ parser.token_list[1].ttype = "IDENTIFIER"
    /\ parser.token_list[2].ttype = "LBRACK"
    /\ AreGroups(2)

\* the nested Indexing nodes of the groups from pos on around a callee
RECURSIVE Indexed(_, _)
Indexed(callee, pos) ==
    IF parser.token_list[pos].ttype = "EOF" THEN callee
    ELSE LET close == FirstOf({"RBRACK"}, pos)
         IN  Indexed(Indexing(callee, parser.token_list[close],
                              EntryNodes(pos + 1, close - 1)),
                     close + 1)

RECURSIVE IndexingDepth(_)
IndexingDepth(expression) ==
    IF expression.node = "Indexing" THEN 1 + IndexingDepth(expression.callee)
    ELSE 0

\* C19: a primary followed by k >= 1 bracket groups parses to k nested
\* Indexing nodes, the innermost with the primary as callee and the first
\* group's indices, each with its own closing bracket; an entry is a plain
\* expression or, written `left : right', a Slice(left, right).
C19_IndexingChain ==
    IsIndexChain /\ parse_pc # "new" =>
       /\ parse_pc = "returned"
       /\ parser.current = Len(parser.token_list) - 1
       /\ result = Indexed(Variable(parser.token_list[1]), 2)
       /\ IndexingDepth(result) =
             Cardinality({i \in 1..Len(parser.token_list) :
                             parser.token_list[i].ttype = "LBRACK"})

\* a[b, b:c][b:c] has been parsed
C19_Witness ==
    /\ IsIndexChain
    /\ parse_pc = "returned"
    /\ IndexingDepth(result) = 2
    /\ Len(result.callee.indices) = 2
    /\ result.callee.indices[2].node = "Slice"
    /\ Len(result.indices) = 1
    /\ result.indices[1].node = "Slice"

(* the nodes of src/src/expr.py that test_indexes expects *)
Range(left, right) == [node |-> "Range", left |-> left, right |-> right]

Indexes(expressions) == [node |-> "Indexes", expressions |-> expressions]

\* the tokens of  a[ : ][ : ]
IsEmptyRanges ==
    /\ Len(parser.token_list) = 8
    /\ [i \in 1..8 |-> parser.token_list[i].ttype] =
          <<"IDENTIFIER", "LBRACK", "COLON", "RBRACK", "LBRACK", "COLON",
            "RBRACK", "EOF">>

\* C20: parsing `a[ : ][ : ]' succeeds and yields the variable a with two
\* chained index groups, each holding exactly one range whose lower and
\* upper bounds are both absent.
C20_EmptyRanges ==
    IsEmptyRanges /\ parse_pc # "new" =>
       /\ parse_pc = "returned"
       /\ result \in
             { [node |-> "Variable", identifier |-> parser.token_list[1],
                indexes |-> <<Indexes(<<Range(Absent, Absent)>>),
                              Indexes(<<Range(Absent, Absent)>>)>>],
               Indexing(Indexing(Variable(parser.token_list[1]),
                                 parser.token_list[4],
                                 <<Slice(Absent, Absent)>>),
                        parser.token_list[7], <<Slice(Absent, Absent)>>),
               Indexing(Indexing(Variable(parser.token_list[1]),
                                 parser.token_list[4],
                                 <<Range(Absent, Absent)>>),
                        parser.token_list[7], <<Range(Absent, Absent)>>) }

\* what the parser does with it: ParseError at the first `:'
C20_RaisesAtColon ==
    IsEmptyRanges /\ parse_pc # "new" =>
       /\ parse_pc = "raised"
       /\ parser.exc.type = "ParseError"
       /\ Parser_peek(parser) = parser.token_list[3]
code_simple ==
    <<
    "\n", " ", " ", " ", " ", " ", " ", " ", " ", "p", "a", "r", "a", "m",
    "e", "t", "e", "r", "s", " ", "{", "\n", " ", " ", " ", " ", " ", " ",
    " ", " ", " ", " ", "r", "e", "a", "l", " ", "a", ";", "\n", " ", " ",
    " ", " ", " ", " ", " ", " ", "}", "\n", " ", " ", " ", " ", " ", " ",
    " ", " " >>

code_simple_normal ==
    <<
    "\n", " ", " ", " ", " ", " ", " ", " ", " ", "p", "a", "r", "a", "m",
    "e", "t", "e", "r", "s", " ", "{", "\n", " ", " ", " ", " ", " ", " ",
    " ", " ", " ", " ", "r", "e", "a", "l", " ", "a", ";", " ", " ", " ",
    "/", "/", " ", "a", " ", "v", "a", "r", "i", "a", "b", "l", "e", "\n",
    " ", " ", " ", " ", " ", " ", " ", " ", "}", "\n", " ", " ", " ", " ",
    " ", " ", " ", " ", "m", "o", "d", "e", "l", " ", "{", "\n", " ", " ",
    " ", " ", " ", " ", " ", " ", " ", " ", " ", " ", "a", " ", "~", " ",
    "n", "o", "r", "m", "a", "l", "(", "0", ",", " ", "1", ")", ";", " ",
    " ", " ", "/", "/", " ", "s", "t", "a", "n", "d", "a", "r", "d", " ",
    "n", "o", "r", "m", "a", "l", "\n", " ", " ", " ", " ", " ", " ", " ",
    " ", "}", "\n", " ", " ", " ", " ", " ", " ", " ", " " >>

code_eight_schools ==
    <<
    "\n", " ", " ", " ", " ", " ", " ", " ", " ", "d", "a", "t", "a", " ",
    "{", "\n", " ", " ", " ", " ", " ", " ", " ", " ", " ", " ", "i", "n",
    "t", "<", "l", "o", "w", "e", "r", "=", "0", ">", " ", "J", ";", " ",
    " ", " ", " ", " ", " ", " ", " ", " ", "/", "/", " ", "n", "u", "m",
    "b", "e", "r", " ", "o", "f", " ", "s", "c", "h", "o", "o", "l", "s",
    "\n", " ", " ", " ", " ", " ", " ", " ", " ", " ", " ", "r", "e", "a",
    "l", " ", "y", "[", "J", "]", ";", " ", " ", " ", " ", " ", " ", " ",
    " ", " ", " ", " ", " ", " ", " ", "/", "/", " ", "e", "s", "t", "i",
    "m", "a", "t", "e", "d", " ", "t", "r", "e", "a", "t", "m", "e", "n",
    "t", " ", "e", "f", "f", "e", "c", "t", "s", "\n", " ", " ", " ", " ",
    " ", " ", " ", " ", " ", " ", "r", "e", "a", "l", "<", "l", "o", "w",
    "e", "r", "=", "0", ">", " ", "s", "i", "g", "m", "a", "[", "J", "]",
    ";", " ", "/", "/", " ", "s", "t", "a", "n", "d", "a", "r", "d", " ",
    "e", "r", "r", "o", "r", " ", "o", "f", " ", "e", "f", "f", "e", "c",
    "t", " ", "e", "s", "t", "i", "m", "a", "t", "e", "s", "\n", " ", " ",
    " ", " ", " ", " ", " ", " ", "}", "\n", " ", " ", " ", " ", " ", " ",
    " ", " ", "p", "a", "r", "a", "m", "e", "t", "e", "r", "s", " ", "{",
    "\n", " ", " ", " ", " ", " ", " ", " ", " ", " ", " ", "r", "e", "a",
    "l", " ", "m", "u", ";", " ", " ", " ", " ", " ", " ", " ", " ", " ",
    " ", " ", " ", " ", " ", " ", " ", "/", "/", " ", "p", "o", "p", "u",
    "l", "a", "t", "i", "o", "n", " ", "t", "r", "e", "a", "t", "m", "e",
    "n", "t", " ", "e", "f", "f", "e", "c", "t", "\n", " ", " ", " ", " ",
    " ", " ", " ", " ", " ", " ", "r", "e", "a", "l", "<", "l", "o", "w",
    "e", "r", "=", "0", ">", " ", "t", "a", "u", ";", " ", " ", " ", " ",
    " ", " ", "/", "/", " ", "s", "t", "a", "n", "d", "a", "r", "d", " ",
    "d", "e", "v", "i", "a", "t", "i", "o", "n", " ", "i", "n", " ", "t",
    "r", "e", "a", "t", "m", "e", "n", "t", " ", "e", "f", "f", "e", "c",
    "t", "s", "\n", " ", " ", " ", " ", " ", " ", " ", " ", " ", " ", "v",
    "e", "c", "t", "o", "r", "[", "J", "]", " ", "e", "t", "a", ";", " ",
    " ", " ", " ", " ", " ", " ", " ", " ", " ", "/", "/", " ", "u", "n",
    "s", "c", "a", "l", "e", "d", " ", "d", "e", "v", "i", "a", "t", "i",
    "o", "n", " ", "f", "r", "o", "m", " ", "m", "u", " ", "b", "y", " ",
    "s", "c", "h", "o", "o", "l", "\n", " ", " ", " ", " ", " ", " ", " ",
    " ", "}", "\n", " ", " ", " ", " ", " ", " ", " ", " ", "t", "r", "a",
    "n", "s", "f", "o", "r", "m", "e", "d", " ", "p", "a", "r", "a", "m",
    "e", "t", "e", "r", "s", " ", "{", "\n", " ", " ", " ", " ", " ", " ",
    " ", " ", " ", " ", "v", "e", "c", "t", "o", "r", "[", "J", "]", " ",
    "t", "h", "e", "t", "a", " ", "=", " ", "m", "u", " ", "+", " ", "t",
    "a", "u", " ", "*", " ", "e", "t", "a", ";", " ", " ", " ", " ", " ",
    " ", " ", " ", "/", "/", " ", "s", "c", "h", "o", "o", "l", " ", "t",
    "r", "e", "a", "t", "m", "e", "n", "t", " ", "e", "f", "f", "e", "c",
    "t", "s", "\n", " ", " ", " ", " ", " ", " ", " ", " ", "}", "\n", " ",
    " ", " ", " ", " ", " ", " ", " ", "m", "o", "d", "e", "l", " ", "{",
    "\n", " ", " ", " ", " ", " ", " ", " ", " ", " ", " ", "t", "a", "r",
    "g", "e", "t", " ", "+", "=", " ", "n", "o", "r", "m", "a", "l", "_",
    "l", "p", "d", "f", "(", "e", "t", "a", " ", "|", " ", "0", ",", " ",
    "1", ")", ";", " ", " ", " ", " ", " ", " ", " ", "/", "/", " ", "p",
    "r", "i", "o", "r", " ", "l", "o", "g", "-", "d", "e", "n", "s", "i",
    "t", "y", "\n", " ", " ", " ", " ", " ", " ", " ", " ", " ", " ", "t",
    "a", "r", "g", "e", "t", " ", "+", "=", " ", "n", "o", "r", "m", "a",
    "l", "_", "l", "p", "d", "f", "(", "y", " ", "|", " ", "t", "h", "e",
    "t", "a", ",", " ", "s", "i", "g", "m", "a", ")", ";", " ", "/", "/",
    " ", "l", "o", "g", "-", "l", "i", "k", "e", "l", "i", "h", "o", "o",
    "d", "\n", " ", " ", " ", " ", " ", " ", " ", " ", "}", "\n", " ", " ",
    " ", " ", " ", " ", " ", " " >>

(***************************************************************************)
(* Programs the pipeline is run on: the programs of the end-to-end tests   *)
(* and sequences of short program sections, in and out of order.           *)
(***************************************************************************)
MaxSections == 2        \* sections in a generated program
MaxLiveSections == 1    \* the same, where termination is checked

Sections ==
    { <<"f", "u", "n", "c", "t", "i", "o", "n", "s", " ", "{", " ", "r",
        "e", "a", "l", " ", "f", "(", "r", "e", "a", "l", " ", "x", ")",
        ";", " ", "}">>,
      <<"d", "a", "t", "a", " ", "{", " ", "i", "n", "t", " ", "N", ";",
        " ", "}">>,
      <<"t", "r", "a", "n", "s", "f", "o", "r", "m", "e", "d", " ", "d",
        "a", "t", "a", " ", "{", " ", "}">>,
      <<"p", "a", "r", "a", "m", "e", "t", "e", "r", "s", " ", "{", " ",
        "r", "e", "a", "l", " ", "x", ";", " ", "}">>,
      <<"t", "r", "a", "n", "s", "f", "o", "r", "m", "e", "d", " ", "p",
        "a", "r", "a", "m", "e", "t", "e", "r", "s", " ", "{", " ", "r",
        "e", "a", "l", " ", "y", " ", "=", " ", "x", ";", " ", "}">>,
      <<"m", "o", "d", "e", "l", " ", "{", " ", "x", " ", "~", " ", "n",
        "o", "r", "m", "a", "l", "(", "0", ",", " ", "1", ")", ";", " ",
        "}">>,
      <<"g", "e", "n", "e", "r", "a", "t", "e", "d", " ", "q", "u", "a",
        "n", "t", "i", "t", "i", "e", "s", " ", "{", " ", "{", " ", "x",
        " ", "=", " ", "1", ";", " ", "}", " ", "}">>,
      <<"m", "o", "d", "e", "l", " ", "{", " ", "t", "a", "r", "g", "e",
        "t", " ", "+", "=", " ", "x", ";", " ", "}">>,
      <<"d", "a", "t", "a", " ", "{", " ", "i", "n", "t", " ", "N", " ",
        "=", " ", "1", ";", " ", "}">>,
      <<"x">> }

RECURSIVE JoinLines(_)
JoinLines(pieces) ==
    IF pieces = << >> THEN << >>
    ELSE Head(pieces) \o <<"\n">> \o JoinLines(Tail(pieces))

\* the programs of at most n sections
Programs(n) ==
    {JoinLines(p) : p \in UNION {[1..k -> Sections] : k \in 0..n}}

GeneratedPrograms == Programs(MaxSections)

\* the programs of src/tests/test_end_to_end.py
EndToEndPrograms == {code_simple, code_simple_normal, code_eight_schools}

ProgramSources == GeneratedPrograms \cup EndToEndPrograms


\* the programs termination is checked on
LiveSources ==
    Programs(MaxLiveSections) \cup EndToEndPrograms \cup Fragments
        \cup IdentifierSources
(***************************************************************************)
(* The pipeline of the end-to-end tests: Scanner(code).scan_tokens(), then *)
(* Parser(tokens).parse_program().  parse_program is one action per tested *)
(* block keyword and one per iteration of the loop over a block's body.    *)
(***************************************************************************)
BlockLoops == {"function_block", "var_block", "block_declarations",
               "block_statements"}

\* parser = parsing.Parser(tokens)
CallParser ==
    /\ scan_pc = "returned"
    /\ parse_pc = "none"
    /\ parser' = Parser_init(scanner.tokens)
    /\ parse_pc' = "new"
    /\ UNCHANGED <<turn, blocks, frame, result>>
    /\ UNCHANGED scan_vars

\* parser.parse_program(): the seven locals are set to None
CallParseProgram ==
    /\ parse_pc = "new"
    /\ parse_pc' = "match"
    /\ turn' = 1
    /\ blocks' = NoBlocks
    /\ UNCHANGED <<parser, frame, result>>
    /\ UNCHANGED scan_vars

\* the next `if self._match(<block keyword>)' with the `{' after it
TestBlockKeyword ==
    /\ parse_pc = "match"
    /\ turn <= NumBlocks
    /\ \E m \in {Parser_parse_program_match(parser, turn)} :
           /\ parser' = m.p
           /\ parse_pc' = IF m.raised THEN "raised"
                          ELSE IF m.v THEN BlockLoop(turn)
                          ELSE "match"
           /\ turn' = IF ~m.raised /\ ~m.v THEN turn + 1 ELSE turn
           /\ frame' = Block(<< >>, << >>)
    /\ UNCHANGED <<blocks, result>>
    /\ UNCHANGED scan_vars

\* where parse_program goes on after an iteration of the loop it is in:
\* the loop again, the statements after the declarations of a block, or
\* the next block keyword once the block is complete
AfterIteration(loop, step) ==
    IF step.raised THEN "raised"
    ELSE IF step.v.more THEN loop
    ELSE IF loop = "block_declarations" THEN "block_statements"
    ELSE "match"

\* one iteration of the loop the parser is in; when the loop ends the block
\* is stored in its local variable (or the statements of the block follow)
BlockIteration ==
    /\ parse_pc \in BlockLoops
    /\ \E step \in {Parser_parse_program_iteration(parser, parse_pc, turn)} :
           /\ parser' = step.p
           /\ parse_pc' = AfterIteration(parse_pc, step)
           /\ frame' =
                IF AfterIteration(parse_pc, step) # parse_pc THEN frame
                ELSE IF parse_pc \in {"var_block", "block_declarations"}
                THEN [frame EXCEPT !.declarations = Append(@, step.v.item)]
                ELSE [frame EXCEPT !.statements = Append(@, step.v.item)]
           /\ blocks' = IF AfterIteration(parse_pc, step) = "match"
                        THEN [blocks EXCEPT ![turn] = frame]
                        ELSE blocks
           /\ turn' = IF AfterIteration(parse_pc, step) = "match"
                      THEN turn + 1 ELSE turn
    /\ UNCHANGED result
    /\ UNCHANGED scan_vars

\* parse_program, were it to insist on the end of the input
ParseProgramReturn_exhausted ==
    /\ parse_pc = "match"
    /\ turn = NumBlocks + 1
    /\ IF Parser_is_at_end(parser)
       THEN /\ result' = Program(blocks[1], blocks[2], blocks[3], blocks[4],
                                 blocks[5], blocks[6], blocks[7])
            /\ parse_pc' = "returned"
            /\ UNCHANGED parser
       ELSE /\ parser' = [parser EXCEPT !.exc =
                             ParseError(Parser_get_current(parser),
                                        <<"Expect end of input.">>)]
            /\ parse_pc' = "raised"
            /\ UNCHANGED result
    /\ UNCHANGED <<turn, blocks, frame>>
    /\ UNCHANGED scan_vars

\* return stmt.Program(functions=functions, data=data, ...)
ParseProgramReturn ==
    /\ parse_pc = "match"
    /\ turn = NumBlocks + 1
    /\ result' = Program(blocks[1], blocks[2], blocks[3], blocks[4],
                         blocks[5], blocks[6], blocks[7])
    /\ parse_pc' = "returned"
    /\ UNCHANGED <<parser, turn, blocks, frame>>
    /\ UNCHANGED scan_vars

Init == InitScanner(ProgramSources) /\ IdleParser

Next ==
    \/ CallScanTokens
    \/ ScanTokensLoop
    \/ ScanTokensReturn
    \/ CallParser
    \/ CallParseProgram
    \/ TestBlockKeyword
    \/ BlockIteration
    \/ ParseProgramReturn

Spec == Init /\ [][Next]_vars

\* a call that has started runs on: scan_tokens and parse_program are
\* ordinary sequential code
InitLive == InitScanner(LiveSources) /\ IdleParser

SpecLive == InitLive /\ [][Next]_vars /\ WF_vars(Next)

(***************************************************************************)
(* Claims about the pipeline (specifications Spec and SpecLive).           *)
(***************************************************************************)
\* the model block of the returned Program holds only TargetPlusAssign
AllTargetPlusAssign(block) ==
    \A i \in 1..Len(block.statements) :
        block.statements[i].node = "TargetPlusAssign"

\* C5: scanning and then parsing the eight-schools program raises nothing
\* and returns a Program whose data, parameters, transformed_parameters and
\* model fields are Blocks, whose functions, transformed_data and
\* generated_quantities fields are absent, and whose model statements are
\* all TargetPlusAssign.
C5_EightSchools ==
    scanner.source = code_eight_schools =>
        /\ scan_pc # "raised"
        /\ parse_pc # "raised"
        /\ parse_pc = "returned" =>
              /\ result.node = "Program"
              /\ result.data.node = "Block"
              /\ result.parameters.node = "Block"
              /\ result.transformed_parameters.node = "Block"
              /\ result.model.node = "Block"
              /\ result.functions = Absent
              /\ result.transformed_data = Absent
              /\ result.generated_quantities = Absent
              /\ Len(result.model.statements) = 2
              /\ AllTargetPlusAssign(result.model)

\* the seven block keywords in the order the claim gives them
C6_Order ==
    <<"FUNCTIONBLOCK", "DATABLOCK", "TRANSFORMEDDATABLOCK", "PARAMETERSBLOCK",
      "TRANSFORMEDPARAMETERSBLOCK", "MODELBLOCK", "GENERATEDQUANTITIESBLOCK">>

\* the position after the brace that closes `depth' open braces
RECURSIVE C6_AfterBraces(_, _, _)
C6_AfterBraces(tokens, pos, depth) ==
    IF depth = 0 \/ tokens[pos].ttype = "EOF" THEN pos
    ELSE C6_AfterBraces(tokens, pos + 1,
                        CASE tokens[pos].ttype = "LBRACE" -> depth + 1
                          [] tokens[pos].ttype = "RBRACE" -> depth - 1
                          [] OTHER -> depth)

\* for the turns k..7: whether the keyword of the turn is the token the
\* turn starts at; a matched keyword is followed by `{' and its block
RECURSIVE C6_Matched(_, _, _)
C6_Matched(tokens, pos, k) ==
    IF k > Len(C6_Order) THEN << >>
    ELSE IF tokens[pos].ttype = C6_Order[k]
    THEN <<TRUE>> \o C6_Matched(tokens, C6_AfterBraces(tokens, pos + 2, 1),
                                k + 1)
    ELSE <<FALSE>> \o C6_Matched(tokens, pos, k + 1)

C6_Fields(program) ==
    <<program.functions, program.data, program.transformed_data,
      program.parameters, program.transformed_parameters, program.model,
      program.generated_quantities>>

\* C6: parse_program tests the seven block keywords once each, in the order
\* functions, data, transformed data, parameters, transformed parameters,
\* model, generated quantities (the turn only ever moves on by one, and the
\* program is returned after the seventh turn); a field of the returned
\* Program is a Block exactly when its keyword was the token at its turn and
\* absent otherwise, so an EOF-only token list yields seven absent fields.
C6_BlocksInOrder ==
    /\ [](parse_pc = "returned" =>
            /\ turn = Len(C6_Order) + 1
            /\ \A k \in 1..Len(C6_Order) :
                  IF C6_Matched(parser.token_list, 1, 1)[k]
                  THEN C6_Fields(result)[k].node = "Block"
                  ELSE C6_Fields(result)[k] = Absent
            /\ Len(parser.token_list) = 1 =>
                  \A k \in 1..Len(C6_Order) : C6_Fields(result)[k] = Absent)
    /\ [][/\ parse_pc = "match" /\ parse_pc' # "raised" =>
                 /\ turn <= Len(C6_Order) => turn' = turn + 1 \/ parse_pc' # "match"
                 /\ turn > Len(C6_Order) => parse_pc' = "returned"
          /\ parse_pc \in BlockLoops /\ parse_pc' = "match" =>
                 turn' = turn + 1]_vars

\* a program was returned with a data block and no functions block
C6_Witness ==
    /\ parse_pc = "returned"
    /\ result.functions = Absent
    /\ result.data.node = "Block"
    /\ result.model.node = "Block"

Terminated == scan_pc = "raised" \/ parse_pc \in {"returned", "raised"}

\* C7: a call of scan_tokens returns or raises, and so does a call of
\* parse_program; every iteration after which a loop goes on has consumed at
\* least one character (scan_tokens) or one token (the loops over the body
\* of a block).
C7_Terminates ==
    /\ (scan_pc = "loop") ~> (scan_pc \in {"returned", "raised"})
    /\ (parse_pc = "match") ~> (parse_pc \in {"returned", "raised"})
    /\ <>Terminated
    /\ [][/\ scan_pc = "loop" /\ scan_pc' = "loop" =>
                 scanner'.current > scanner.current
          /\ parse_pc \in BlockLoops /\ parse_pc' = parse_pc =>
                 parser'.current > parser.current]_vars

\* parse_program raised inside a block, after the scanner returned
C7_Witness ==
    /\ parse_pc = "raised"
    /\ scan_pc = "returned"
    /\ parser.current > 2

\* the position parse_program stops at: after the block of the last keyword
\* that is the token at its turn
RECURSIVE C28_Stop(_, _, _)
C28_Stop(tokens, pos, k) ==
    IF k > Len(C6_Order) THEN pos
    ELSE IF tokens[pos].ttype = C6_Order[k]
    THEN C28_Stop(tokens, C6_AfterBraces(tokens, pos + 2, 1), k + 1)
    ELSE C28_Stop(tokens, pos, k + 1)

\* the fields of the keywords that occur from position pos on and nowhere
\* before it
C28_LeftOnly(tokens, pos) ==
    {k \in 1..Len(C6_Order) :
        /\ \E i \in pos..Len(tokens) : tokens[i].ttype = C6_Order[k]
        /\ \A i \in 1..(pos - 1) : tokens[i].ttype # C6_Order[k]}

\* C28: parse_program does not check that the input is exhausted: after the
\* seventh keyword test it returns a Program and never raises, whatever
\* tokens remain; the cursor is left after the last block whose keyword was
\* recognised in the fixed order, the tokens from there on stay unconsumed,
\* and the fields of the keywords found only among them are absent.
C28_InputNotExhausted ==
    /\ [](parse_pc = "returned" =>
            LET stop == C28_Stop(parser.token_list, 1, 1)
            IN  /\ parser.exc = NoExc
                /\ parser.current + 1 = stop
                /\ \A k \in C28_LeftOnly(parser.token_list, stop) :
                      C6_Fields(result)[k] = Absent)
    /\ [][parse_pc = "match" /\ turn > Len(C6_Order) =>
              parse_pc' = "returned" /\ parser' = parser]_vars

\* a program was returned with a block keyword left unconsumed and its
\* field absent
C28_Witness ==
    /\ parse_pc = "returned"
    /\ Parser_peek(parser).ttype \in {C6_Order[k] : k \in 1..Len(C6_Order)}
    /\ \E k \in C28_LeftOnly(parser.token_list, parser.current + 1) :
          /\ Parser_peek(parser).ttype = C6_Order[k]
          /\ C6_Fields(result)[k] = Absent
    /\ \E k \in 1..Len(C6_Order) : C6_Fields(result)[k].node = "Block"

\* a program was returned with a repeated block keyword left unconsumed
C28_WitnessRepeated ==
    /\ parse_pc = "returned"
    /\ Parser_peek(parser).ttype = "DATABLOCK"
    /\ result.data.node = "Block"

\* a program was returned with a stray identifier left unconsumed
C28_WitnessStray ==
    /\ parse_pc = "returned"
    /\ Parser_peek(parser).ttype = "IDENTIFIER"
    /\ \A k \in 1..Len(C6_Order) : C6_Fields(result)[k] = Absent
(***************************************************************************)
(* Programs of one block whose body is a generated declaration, or a       *)
(* generated sequence of declarations, statements and nested blocks.       *)
(***************************************************************************)
MaxConstraints == 2     \* entries between `<' and `>'
MaxTypeDims == 3        \* entries between `[' and `]' after the type
MaxArrayDims == 2       \* entries between `[' and `]' after the identifier
MaxItems == 3           \* declarations and statements in a block

\* the texts of the variable types, from the keyword table
TypeTexts == {text \in KeywordTexts : KeywordType(text) \in VAR_TYPES}

ConstraintEntries ==
    { <<"l", "o", "w", "e", "r", "=", "0">>, <<"u", "p", "p", "e", "r", "=", "1">>,
      <<"o", "f", "f", "s", "e", "t", "=", "0">>, <<"m", "u", "l", "t", "i", "p", "l", "i", "e", "r", "=", "1">> }

ClauseTexts ==
    { << >> } \cup
    { <<"<">> \o JoinWith(entries, <<",">>) \o <<">">> :
        entries \in UNION {[1..n -> ConstraintEntries] : n \in 0..MaxConstraints} }

\* `[2, 3, ...]' with n entries
DimsText(n) ==
    <<"[">> \o JoinWith([i \in 1..n |-> <<CHOOSE d \in Digits : DigitValue(d) = i + 1>>],
                        <<",">>) \o <<"]">>

DimsTexts(most) == { << >> } \cup {DimsText(n) : n \in 0..most}

DeclarationTexts ==
    { type \o clause \o dims \o <<" ", "x", ";">> :
        type \in TypeTexts, clause \in ClauseTexts, dims \in DimsTexts(2) }
    \cup
    { type \o clause \o dims \o <<" ", "x">> \o array_dims \o initializer \o <<";">> :
        type \in TypeTexts, clause \in { << >>, <<"<", "l", "o", "w", "e", "r", "=", "0", ">">> },
        dims \in DimsTexts(MaxTypeDims), array_dims \in DimsTexts(MaxArrayDims),
        initializer \in { << >>, <<" ", "=", " ", "1">> } }

BlockHeaders == { <<"d", "a", "t", "a", " ", "{", " ">>, <<"p", "a", "r", "a", "m", "e", "t", "e", "r", "s", " ", "{", " ">>, <<"m", "o", "d", "e", "l", " ", "{", " ">> }

DeclarationPrograms ==
    { header \o declaration \o <<" ", "}">> :
        header \in BlockHeaders, declaration \in DeclarationTexts }

\* a declaration, a statement, and a nested block with the declaration
\* first and with the statement first
BlockItems ==
    { <<"r", "e", "a", "l", " ", "x", ";", " ">>, <<"y", " ", "=", " ", "1", ";", " ">>,
      <<"{", " ", "r", "e", "a", "l", " ", "z", ";", " ", "z", " ", "=", " ", "1", ";", " ", "}", " ">>,
      <<"{", " ", "z", " ", "=", " ", "1", ";", " ", "r", "e", "a", "l", " ", "w", ";", " ", "}", " ">> }

ItemPrograms ==
    { <<"m", "o", "d", "e", "l", " ", "{", " ">> \o Concat(items) \o <<"}">> :
        items \in UNION {[1..n -> BlockItems] : n \in 0..MaxItems} }

BlockSources == DeclarationPrograms \cup ItemPrograms

InitBlock == InitScanner(BlockSources) /\ IdleParser

SpecBlock == InitBlock /\ [][Next]_vars

(***************************************************************************)
(* What the token list of a program says about its first declaration,      *)
(* read off the tokens without the parser: token 1 is the block keyword,   *)
(* token 2 the `{', token 3 the type.                                      *)
(***************************************************************************)
\* every Declaration the parser has returned into the block it is parsing
\* or into a finished block
ParsedDeclarations ==
    {frame.declarations[i] : i \in 1..Len(frame.declarations)}
        \cup UNION {{blocks[k].declarations[i] :
                        i \in 1..Len(blocks[k].declarations)} :
                    k \in {k \in 1..NumBlocks : blocks[k] # Absent}}

StartsWithDeclaration ==
    /\ Len(parser.token_list) > 3
    /\ parser.token_list[3].ttype \in VAR_TYPES

HasClause ==
    /\ StartsWithDeclaration
    /\ parser.token_list[4].ttype = "LABRACK"

\* the position of the `>' that closes the clause
ClauseEnd ==
    CHOOSE i \in 5..Len(parser.token_list) :
        /\ parser.token_list[i].ttype = "RABRACK"
        /\ \A j \in 5..(i - 1) : parser.token_list[j].ttype # "RABRACK"

\* the keywords of the clause in order: its entries are `keyword = value'
ClauseKeywords ==
    [j \in 1..((ClauseEnd - 4) \div 4) |-> parser.token_list[4 * j + 1].ttype]

ClauseValue(keyword) ==
    LET j == CHOOSE j \in DOMAIN ClauseKeywords : ClauseKeywords[j] = keyword
    IN  Literal(parser.token_list[4 * j + 3])

\* the clause as the claim accepts it: non-empty, one family that the type
\* permits, no keyword twice
ClauseAccepted ==
    LET keywords == {ClauseKeywords[j] : j \in DOMAIN ClauseKeywords}
        dtype == parser.token_list[3].ttype
    IN  /\ keywords # {}
        /\ \/ /\ keywords \subseteq {"LOWER", "UPPER"}
              /\ dtype \in {"INT", "REAL", "VECTOR", "ROWVECTOR", "MATRIX"}
           \/ /\ keywords \subseteq {"OFFSET", "MULTIPLIER"}
              /\ dtype \in {"REAL", "VECTOR", "ROWVECTOR", "MATRIX"}
        /\ Cardinality(keywords) = Len(ClauseKeywords)

\* the constraint of a Declaration under the name of a keyword
ConstraintOf(declaration, keyword) ==
    CASE keyword = "LOWER" -> declaration.lower
      [] keyword = "UPPER" -> declaration.upper
      [] keyword = "OFFSET" -> declaration.offset
      [] keyword = "MULTIPLIER" -> declaration.multiplier

\* C13: a constraint clause is accepted only if it is non-empty, of one
\* family that the declared type permits, and names no keyword twice: the
\* parser gets past the `>' of such a clause and the Declaration carries
\* exactly the constraints named; every other clause raises ParseError
\* before its `>' is consumed and no Declaration is returned.  No parsed
\* Declaration carries both a lower/upper and an offset/multiplier constraint.
C13_ConstraintClause ==
    /\ HasClause =>
         IF ClauseAccepted
         THEN /\ Raised(parser) => parser.current >= ClauseEnd
              /\ \A declaration \in ParsedDeclarations :
                    declaration.dtype = parser.token_list[3] =>
                      \A keyword \in {"LOWER", "UPPER", "OFFSET", "MULTIPLIER"} :
                         ConstraintOf(declaration, keyword) =
                            IF \E j \in DOMAIN ClauseKeywords :
                                   ClauseKeywords[j] = keyword
                            THEN ClauseValue(keyword) ELSE Absent
         ELSE /\ ParsedDeclarations = {}
              /\ parse_pc # "returned"
              /\ Raised(parser) =>
                    /\ parser.exc.type = "ParseError"
                    /\ parser.current < ClauseEnd
    /\ \A declaration \in ParsedDeclarations :
          ~ /\ {declaration.lower, declaration.upper} # {Absent}
            /\ {declaration.offset, declaration.multiplier} # {Absent}

\* a Declaration with both constraints of the lower/upper family has been
\* parsed
C13_WitnessAccepted ==
    /\ HasClause
    /\ ClauseAccepted
    /\ Len(ClauseKeywords) = 2
    /\ \E declaration \in ParsedDeclarations :
          declaration.lower # Absent /\ declaration.upper # Absent

\* a clause that names a keyword twice has raised ParseError
C13_Witness ==
    /\ HasClause
    /\ Len(ClauseKeywords) = 2
    /\ ClauseKeywords[1] = ClauseKeywords[2]
    /\ Raised(parser)
    /\ parser.exc.type = "ParseError"
    /\ parser.exc.message = <<"Multiple definition of ", "lower", ".">>

\* where the type dimensions of the first declaration would start: after
\* the type, or after its constraint clause
TypeDimsStart == IF HasClause THEN ClauseEnd + 1 ELSE 4

\* the position of the first `]' after a position
BracketEnd(open) ==
    CHOOSE i \in (open + 1)..Len(parser.token_list) :
        /\ parser.token_list[i].ttype = "RBRACK"
        /\ \A j \in (open + 1)..(i - 1) : parser.token_list[j].ttype # "RBRACK"

\* the entries of the bracket list that opens at a position, in order; the
\* entries are single tokens separated by commas
BracketEntries(open) ==
    [j \in 1..((BracketEnd(open) - open) \div 2) |->
        Literal(parser.token_list[open + 2 * j - 1])]

HasTypeBracket == parser.token_list[TypeDimsStart].ttype = "LBRACK"

\* the number of type dimensions the claim fixes for a type
TypeDimsAllowed(ttype) ==
    CASE ttype \in {"INT", "REAL"} -> {0}
      [] ttype \in {"VECTOR", "ORDERED", "POSITIVEORDERED", "SIMPLEX",
                    "UNITVECTOR", "ROWVECTOR", "CHOLESKYFACTORCORR",
                    "CORRMATRIX", "COVMATRIX"} -> {1}
      [] ttype = "MATRIX" -> {2}
      [] ttype = "CHOLESKYFACTORCOV" -> {1, 2}

\* the bracket list after the type has the shape the type calls for: none
\* for int and real, otherwise a list of an allowed number of entries
TypeDimsShaped ==
    LET allowed == TypeDimsAllowed(parser.token_list[3].ttype)
    IN  IF allowed = {0} THEN ~HasTypeBracket
        ELSE /\ HasTypeBracket
             /\ Len(BracketEntries(TypeDimsStart)) \in allowed

\* C14: the number of type dimensions of every parsed Declaration is the
\* one its dtype fixes (0 for int and real, 1 for the one-dimensional
\* types, 2 for matrix, 1 or 2 for cholesky_factor_cov), the dimensions
\* being the entries of the bracket list in order; a missing or differently
\* shaped bracket list raises ParseError and gives no Declaration.
C14_TypeDims ==
    /\ \A declaration \in ParsedDeclarations :
          Len(declaration.type_dims) \in TypeDimsAllowed(declaration.dtype.ttype)
    /\ StartsWithDeclaration /\ (HasClause => ClauseAccepted) =>
         IF TypeDimsShaped
         THEN /\ Raised(parser) /\ HasTypeBracket =>
                    parser.current >= BracketEnd(TypeDimsStart)
              /\ \A declaration \in ParsedDeclarations :
                    declaration.dtype = parser.token_list[3] =>
                       declaration.type_dims =
                          IF HasTypeBracket THEN BracketEntries(TypeDimsStart)
                          ELSE << >>
         ELSE /\ ParsedDeclarations = {}
              /\ parse_pc # "returned"
              /\ Raised(parser) =>
                    /\ parser.exc.type = "ParseError"
                    /\ parser.current < IF HasTypeBracket
                                        THEN BracketEnd(TypeDimsStart)
                                        ELSE TypeDimsStart

\* a cholesky_factor_cov with two type dimensions has been parsed
C14_Witness ==
    \E declaration \in ParsedDeclarations :
        /\ declaration.dtype.ttype = "CHOLESKYFACTORCOV"
        /\ Len(declaration.type_dims) = 2

\* `matrix[2] x;' has raised
C14_WitnessRaised ==
    /\ StartsWithDeclaration
    /\ parser.token_list[3].ttype = "MATRIX"
    /\ HasTypeBracket
    /\ Len(BracketEntries(TypeDimsStart)) = 1
    /\ Raised(parser)

\* the position of the identifier of the first declaration, given that its
\* type dimensions have the shape the type calls for
IdentifierAt ==
    IF HasTypeBracket THEN BracketEnd(TypeDimsStart) + 1 ELSE TypeDimsStart

HasArrayBracket == parser.token_list[IdentifierAt + 1].ttype = "LBRACK"

\* the position of the last token before `= expr' or `;'
DeclaratorEnd ==
    IF HasArrayBracket THEN BracketEnd(IdentifierAt + 1) ELSE IdentifierAt

HasInitializer == parser.token_list[DeclaratorEnd + 1].ttype = "ASSIGN"

\* the first declaration is well formed from its type to its identifier
WellFormedToIdentifier ==
    /\ StartsWithDeclaration
    /\ HasClause => ClauseAccepted
    /\ TypeDimsShaped
    /\ parser.token_list[IdentifierAt].ttype = "IDENTIFIER"

\* C15: no Declaration of a `data' or `parameters' block has an
\* initializer: a well-formed declaration with `= expr' in such a block is
\* parsed to its `;' and then raises ParseError instead of being returned.
C15_NoInitializer ==
    /\ \A k \in {2, 4} :
          blocks[k] # Absent =>
             \A i \in 1..Len(blocks[k].declarations) :
                blocks[k].declarations[i].initializer = Absent
    /\ parse_pc = "var_block" =>
          \A i \in 1..Len(frame.declarations) :
             frame.declarations[i].initializer = Absent
    /\ ( /\ Len(parser.token_list) > 3
         /\ parser.token_list[1].ttype \in {"DATABLOCK", "PARAMETERSBLOCK"}
         /\ WellFormedToIdentifier
         /\ HasArrayBracket => Len(BracketEntries(IdentifierAt + 1)) >= 1
         /\ HasInitializer ) =>
            /\ ParsedDeclarations = {}
            /\ parse_pc # "returned"
            /\ Raised(parser) =>
                  /\ parser.exc.type = "ParseError"
                  /\ parser.exc.message \in
                        { <<"Assigments not allowed in ", "DATABLOCK", " block.">>,
                          <<"Assigments not allowed in ", "PARAMETERSBLOCK", " block.">> }
                  /\ Parser_previous(parser).ttype = "SEMICOLON"

\* a declaration with an initializer has raised in a parameters block,
\* after its `;'
C15_Witness ==
    /\ Len(parser.token_list) > 3
    /\ parser.token_list[1].ttype = "PARAMETERSBLOCK"
    /\ Raised(parser)
    /\ parser.exc.message = <<"Assigments not allowed in ", "PARAMETERSBLOCK", " block.">>
    /\ Parser_previous(parser).ttype = "SEMICOLON"

(***************************************************************************)
(* The order of declarations and statements, read off the token list: in   *)
(* the generated blocks an item starts after `{', `;' or `}'.              *)
(***************************************************************************)
ItemStarts ==
    {i \in 3..Len(parser.token_list) :
        /\ parser.token_list[i - 1].ttype \in {"LBRACE", "SEMICOLON", "RBRACE"}
        /\ parser.token_list[i].ttype \notin {"RBRACE", "EOF"}}

\* a variable type starts an item although the item before it in the same
\* block is a statement: a nested block, or a `;'-terminated item that does
\* not start with a type
TypeAfterStatement(i) ==
    /\ parser.token_list[i].ttype \in VAR_TYPES
    /\ \/ parser.token_list[i - 1].ttype = "RBRACE"
       \/ /\ parser.token_list[i - 1].ttype = "SEMICOLON"
          /\ LET before == CHOOSE j \in ItemStarts :
                              j < i /\ \A k \in ItemStarts : k < i => k <= j
             IN  parser.token_list[before].ttype \notin VAR_TYPES

DeclarationAfterStatement == \E i \in ItemStarts : TypeAfterStatement(i)

\* C16: declarations precede statements in every block: a program in which
\* a variable type follows a statement of the same block is never returned
\* but raises ParseError; at statement position a variable-type keyword
\* raises ParseError, and no Declaration is added to a block once its
\* statements are being parsed.
C16_DeclarationsFirst ==
    /\ [](parse_pc # "none" /\ DeclarationAfterStatement =>
             /\ parse_pc # "returned"
             /\ Raised(parser) => parser.exc.type = "ParseError")
    /\ [][parse_pc = "block_statements"
             /\ Parser_peek(parser).ttype \in VAR_TYPES =>
                 /\ Raised(parser')
                 /\ parser'.exc.type = "ParseError"
                 /\ parser'.current = parser.current]_vars
    /\ [][parse_pc = "block_statements" /\ parse_pc' # "match" =>
             frame'.declarations = frame.declarations]_vars

\* a declaration after the first statement of the block has raised, one
\* declaration and one statement having been parsed before it
C16_Witness ==
    /\ parse_pc = "raised"
    /\ Len(frame.declarations) = 1
    /\ Len(frame.statements) = 1
    /\ Parser_peek(parser).ttype \in VAR_TYPES

\* C17: array dimensions after the identifier are optional; a `[' there
\* encloses one or more comma-separated expressions and `]', and the
\* Declaration has one array_dims entry per expression in order; an empty
\* `[]' raises ParseError at its `]' and gives no Declaration, and so does
\* `vector[] x;'.
C17_ArrayDims ==
    /\ WellFormedToIdentifier =>
         IF HasArrayBracket /\ BracketEntries(IdentifierAt + 1) = << >>
         THEN /\ ParsedDeclarations = {}
              /\ parse_pc # "returned"
              /\ Raised(parser) =>
                    /\ parser.exc.type = "ParseError"
                    /\ Parser_peek(parser) = parser.token_list[IdentifierAt + 2]
         ELSE /\ Raised(parser) => parser.current >= DeclaratorEnd
              /\ \A declaration \in ParsedDeclarations :
                    declaration.dtype = parser.token_list[3] =>
                       declaration.array_dims =
                          IF HasArrayBracket
                          THEN BracketEntries(IdentifierAt + 1)
                          ELSE << >>
    /\ ( /\ Len(parser.token_list) > 5
         /\ parser.token_list[3].ttype = "VECTOR"
         /\ parser.token_list[4].ttype = "LBRACK"
         /\ parser.token_list[5].ttype = "RBRACK" ) =>
            /\ ParsedDeclarations = {}
            /\ parse_pc # "returned"
            /\ Raised(parser) => parser.exc.type = "ParseError"

\* an empty `[]' after the identifier has raised at its `]'
C17_Witness ==
    /\ WellFormedToIdentifier
    /\ HasArrayBracket
    /\ BracketEntries(IdentifierAt + 1) = << >>
    /\ Raised(parser)
    /\ Parser_peek(parser).ttype = "RBRACK"

\* a Declaration with two array dimensions has been parsed
C17_WitnessParsed ==
    \E declaration \in ParsedDeclarations : Len(declaration.array_dims) = 2

(***************************************************************************)
(* The items of a block.                                                   *)
(***************************************************************************)
\* the number of blocks open at token i
Depth(i) ==
    Cardinality({j \in 1..(i - 1) : parser.token_list[j].ttype = "LBRACE"})
        - Cardinality({j \in 1..(i - 1) :
                          parser.token_list[j].ttype = "RBRACE"})

\* the items of the outermost block that start with a variable type, and
\* its other items
TopDeclarations ==
    {i \in ItemStarts :
        Depth(i) = 1 /\ parser.token_list[i].ttype \in VAR_TYPES}

TopStatements ==
    {i \in ItemStarts :
        Depth(i) = 1 /\ parser.token_list[i].ttype \notin VAR_TYPES}

\* a `model' block whose items are `real x;', `y = 1;' and nested blocks of
\* these
IsItemProgram ==
    /\ Len(parser.token_list) >= 4
    /\ parser.token_list[1].ttype = "MODELBLOCK"
    /\ parser.token_list[2].ttype = "LBRACE"
    /\ \A i \in ItemStarts :
          \/ parser.token_list[i].ttype = "LBRACE"
          \/ /\ i + 2 <= Len(parser.token_list)
             /\ [k \in 1..3 |-> parser.token_list[i + k - 1].ttype] =
                   <<"REAL", "IDENTIFIER", "SEMICOLON">>
          \/ /\ i + 3 <= Len(parser.token_list)
             /\ [k \in 1..4 |-> parser.token_list[i + k - 1].ttype] =
                   <<"IDENTIFIER", "ASSIGN", "INTNUMERAL", "SEMICOLON">>

ParsingDone == parse_pc \in {"returned", "raised"}

C25_WitnessEmpty ==
    /\ IsItemProgram
    /\ parse_pc = "returned"
    /\ result.model = [node |-> "Block", declarations |-> << >>,
                       statements |-> << >>]
(***************************************************************************)
(* _parse_statement called on the tokens of one statement.  A statement is *)
(* a sequence of words; the sources are the well-formed statements and     *)
(* every statement that differs from one of them in a single word.         *)
(***************************************************************************)
MaxArgs == 2            \* arguments between `(' and `)'

AssignmentLexemes ==
    {<<"=">>, <<"<", "-">>, <<"+", "=">>, <<"-", "=">>, <<"*", "=">>, <<"/", "=">>, <<".", "*", "=">>, <<".", "/", "=">>}

\* a, b, ... separated by commas: n arguments
ArgumentWords(n) ==
    IF n = 0 THEN << >>
    ELSE Tail(Concat([i \in 1..n |-> <<<<",">>, <<<<"a">>, <<"b">>, <<"c">>, <<"d">>>>[i]>>]))

AssignStatements == {<<<<"x">>, op, <<"y">>, <<";">>>> : op \in AssignmentLexemes}

TildeStatements ==
    {<<<<"x">>, <<"~">>, <<"f">>, <<"(">>>> \o ArgumentWords(n) \o <<<<")">>, <<";">>>> :
        n \in 0..MaxArgs}

PrintStatements ==
    {<<keyword, <<"(">>>> \o ArgumentWords(n) \o <<<<")">>, <<";">>>> :
        keyword \in {<<"p", "r", "i", "n", "t">>, <<"r", "e", "j", "e", "c", "t">>}, n \in 0..MaxArgs}

CallStatements ==
    {<<<<"y">>, <<"=">>, <<"f">>, <<"(">>>> \o ArgumentWords(n) \o <<<<")">>, <<";">>>> :
        n \in 0..MaxArgs}

WellFormedStatements ==
    AssignStatements \cup TildeStatements \cup PrintStatements
        \cup CallStatements

EditWords == {<<"x">>, <<"=">>, <<"~">>, <<";">>, <<",">>, <<")">>, <<"+">>}

Removed(words, i) == SubSeq(words, 1, i - 1) \o SubSeq(words, i + 1, Len(words))

Replaced(words, i, word) == [words EXCEPT ![i] = word]

Edited(words) ==
    {words} \cup {Removed(words, i) : i \in 1..Len(words)}
            \cup {Replaced(words, i, word) :
                     i \in 1..Len(words), word \in EditWords}

\* n nested `if (c)' around `x = 1;' followed by m `else y = 2;', alone and
\* as the only statement of a block
MaxIfs == 2             \* nested if statements

IfWords(n, m) ==
    Concat([k \in 1..n |-> <<<<"i", "f">>, <<"(">>, <<"c">>, <<")">>>>])
        \o <<<<"x">>, <<"=">>, <<"1">>, <<";">>>>
        \o Concat([j \in 1..m |-> <<<<"e", "l", "s", "e">>, <<"y">>, <<"=">>, <<"2">>, <<";">>>>])

IfStatements ==
    UNION {{IfWords(n, m), <<<<"{">>>> \o IfWords(n, m) \o <<<<"}">>>>} :
              n \in 0..MaxIfs, m \in 0..(MaxIfs + 1)}
        \cup {<<<<"e", "l", "s", "e">>, <<"y">>, <<"=">>, <<"2">>, <<";">>>>}

StatementSources ==
    {JoinWith(words, <<" ">>) :
        words \in UNION {Edited(statement) : statement \in WellFormedStatements}
                      \cup IfStatements}

StatementTokens ==
    {Scanner_scan_tokens(Scanner_init(source)).tokens :
        source \in StatementSources}

InitStmt ==
    /\ scanner = Scanner_init(<< >>)
    /\ scan_pc = "none"
    /\ scan_exc = NoExc
    /\ scan_calls = 0
    /\ parser \in {Parser_init(token_list) : token_list \in StatementTokens}
    /\ parse_pc = "new"
    /\ turn = 0
    /\ blocks = NoBlocks
    /\ frame = Block(<< >>, << >>)
    /\ result = Absent

\* parser._parse_statement()
CallParseStatement ==
    /\ parse_pc = "new"
    /\ scan_pc = "none"
    /\ \E statement \in {Parser_parse_statement(parser)} :
           /\ parser' = statement.p
           /\ parse_pc' = IF Raised(statement.p) THEN "raised" ELSE "returned"
           /\ result' = IF Raised(statement.p) THEN Absent ELSE statement.v
    /\ UNCHANGED <<turn, blocks, frame>>
    /\ UNCHANGED scan_vars

NextStmt == CallParseStatement

SpecStmt == InitStmt /\ [][NextStmt]_vars
(***************************************************************************)
(* Properties of _parse_statement, checked under SpecStmt.  What is        *)
(* expected of a statement is read off the token list, by position.        *)
(***************************************************************************)
StatementKeywords ==
    {"BREAK", "CONTINUE", "RETURN", "IF", "WHILE", "FOR", "PRINT", "REJECT",
     "TARGET"}

StartsWithExpression ==
    parser.token_list[1].ttype \notin StatementKeywords \cup {"LBRACE", "SEMICOLON"}

\* the parser with its cursor at position at (0-based), and the type of the
\* token under a cursor
Cursor(at) == [Parser_init(parser.token_list) EXCEPT !.current = at]

TypeAt(at) == parser.token_list[at + 1].ttype

Rejected == [raised |-> TRUE, v |-> Absent, current |-> 0]

Accepted(v, current) == [raised |-> FALSE, v |-> v, current |-> current]

\* expression (`,' expression)* from position at on: the expressions and the
\* position after them
RECURSIVE ExpressionList(_, _)
ExpressionList(at, so_far) ==
    LET expression == Parser_parse_expression(Cursor(at))
    IN  IF expression.raised THEN Rejected
        ELSE IF TypeAt(expression.p.current) = "COMMA"
        THEN ExpressionList(expression.p.current + 1,
                            Append(so_far, expression.v))
        ELSE Accepted(Append(so_far, expression.v), expression.p.current)

\* lhs <op> value `;'
ExpectedAssign(lhs, at) ==
    LET value == Parser_parse_expression(Cursor(at + 1))
    IN  IF value.raised THEN Rejected
        ELSE IF TypeAt(value.p.current) # "SEMICOLON" THEN Rejected
        ELSE Accepted([node |-> "Assign", lhs |-> lhs,
                       assignment_op |-> parser.token_list[at + 1],
                       value |-> value.v],
                      value.p.current + 1)

\* lhs `~' identifier `(' args `)' `;'
ExpectedTilde(lhs, at) ==
    IF TypeAt(at) # "TILDE" THEN Rejected
    ELSE IF TypeAt(at + 1) # "IDENTIFIER" THEN Rejected
    ELSE IF TypeAt(at + 2) # "LPAREN" THEN Rejected
    ELSE LET args == ExpressionList(at + 3, << >>)
         IN  IF args.raised THEN Rejected
             ELSE IF TypeAt(args.current) # "RPAREN" THEN Rejected
             ELSE IF TypeAt(args.current + 1) # "SEMICOLON" THEN Rejected
             ELSE Accepted([node |-> "Tilde", lhs |-> lhs,
                            identifier |-> parser.token_list[at + 2],
                            args |-> args.v],
                           args.current + 2)

ExpectedExpressionStatement ==
    LET lhs == Parser_parse_expression(Cursor(0))
    IN  IF lhs.raised THEN Rejected
        ELSE IF TypeAt(lhs.p.current) \in
                  {"ASSIGN", "ARROWASSIGN", "PLUSASSIGN", "MINUSASSIGN",
                   "TIMESASSIGN", "DIVIDEASSIGN", "ELTTIMESASSIGN",
                   "ELTDIVIDEASSIGN"}
        THEN ExpectedAssign(lhs.v, lhs.p.current)
        ELSE ExpectedTilde(lhs.v, lhs.p.current)

\* what _parse_statement did is what is expected
Outcome(expected) ==
    IF expected.raised
    THEN parse_pc = "raised" /\ parser.exc.type = "ParseError"
    ELSE /\ parse_pc = "returned"
         /\ result = expected.v
         /\ parser.current = expected.current

\* C21: a statement that starts with none of the statement keywords, `{' or
\* `;' is an expression followed by one of the eight assignment operators, a
\* value and `;', giving Assign(lhs, operator token, value), or by `~', an
\* identifier, `(', a comma-separated argument list, `)' and `;', giving
\* Tilde(lhs, identifier, args); anything else raises ParseError.
C21_AssignOrTilde ==
    StartsWithExpression /\ parse_pc # "new" =>
        Outcome(ExpectedExpressionStatement)

\* x ./= y;  and  x ~ f(a, b);  have been parsed
C21_Witness ==
    /\ StartsWithExpression
    /\ parse_pc = "returned"
    /\ result.node = "Tilde"
    /\ Len(result.args) = 2
    /\ result.lhs = Variable(parser.token_list[1])

C21_WitnessAssign ==
    /\ StartsWithExpression
    /\ parse_pc = "returned"
    /\ result.node = "Assign"
    /\ result.assignment_op.ttype = "ELTDIVIDEASSIGN"

C21_WitnessRaised ==
    /\ StartsWithExpression
    /\ parse_pc = "raised"
    /\ parser.exc.message = <<"Invalid statement.">>

(***************************************************************************)
(* if / else.  In a chain of n `if (c)' around one assignment followed by  *)
(* m `else' clauses, the k-th `if' is at tokens 4(k-1)+1 .. 4k after the   *)
(* base, the assignment follows, and the j-th `else' follows that.         *)
(***************************************************************************)
CountOf(ttype) ==
    Cardinality({i \in 1..Len(parser.token_list) :
                    parser.token_list[i].ttype = ttype})

Types(lo, hi) == [i \in 1..(hi - lo + 1) |-> parser.token_list[lo + i - 1].ttype]

\* the tokens after base are the chain, and `closing' tokens (EOF among
\* them) follow it
IsIfChainAt(base, closing) ==
    LET n == CountOf("IF")
        m == CountOf("ELSE")
        tokens == parser.token_list
    IN  /\ Len(tokens) = base + 4 * n + 4 + 5 * m + closing
        /\ \A k \in 1..n :
              Types(base + 4 * k - 3, base + 4 * k) =
                  <<"IF", "LPAREN", "IDENTIFIER", "RPAREN">>
        /\ Types(base + 4 * n + 1, base + 4 * n + 4) =
              <<"IDENTIFIER", "ASSIGN", "INTNUMERAL", "SEMICOLON">>
        /\ \A j \in 1..m :
              Types(base + 4 * n + 5 * j, base + 4 * n + 5 * j + 4) =
                  <<"ELSE", "IDENTIFIER", "ASSIGN", "INTNUMERAL", "SEMICOLON">>

\* the assignment whose first token is at position at
AssignAt(at) ==
    [node |-> "Assign", lhs |-> Variable(parser.token_list[at]),
     assignment_op |-> parser.token_list[at + 1],
     value |-> Literal(parser.token_list[at + 2])]

\* the statement that starts with the k-th `if': the j-th `else' belongs to
\* the j-th `if' counted from the innermost
RECURSIVE NearestIf(_, _)
NearestIf(base, k) ==
    LET n == CountOf("IF")
        m == CountOf("ELSE")
    IN  IF k > n THEN AssignAt(base + 4 * n + 1)
        ELSE [node |-> "IfElse",
              condition |-> Variable(parser.token_list[base + 4 * k - 1]),
              consequent |-> NearestIf(base, k + 1),
              alternative |->
                  IF n - k + 1 <= m
                  THEN AssignAt(base + 4 * n + 5 * (n - k + 1) + 1)
                  ELSE Absent]

Smaller(a, b) == IF a < b THEN a ELSE b

\* C29: an `else' attaches to the nearest preceding `if' that has no else
\* yet, so `if (a) if (b) s1 else s2' is IfElse(a, IfElse(b, s1, s2),
\* absent); an `else' that does not directly follow the consequent of an
\* `if' raises ParseError where a statement is parsed at it.
C29_NearestIf ==
    parse_pc # "new" =>
       /\ IsIfChainAt(0, 1) =>
             /\ parse_pc = "returned"
             /\ result = NearestIf(0, 1)
             /\ parser.current =
                   4 * CountOf("IF") + 4
                       + 5 * Smaller(CountOf("ELSE"), CountOf("IF"))
       /\ parser.token_list[1].ttype = "LBRACE" /\ IsIfChainAt(1, 2) =>
             IF CountOf("ELSE") <= CountOf("IF")
             THEN /\ parse_pc = "returned"
                  /\ result = [node |-> "Block", declarations |-> << >>,
                               statements |-> <<NearestIf(1, 1)>>]
             ELSE /\ parse_pc = "raised"
                  /\ parser.exc.type = "ParseError"
                  /\ Parser_peek(parser).ttype = "ELSE"
       /\ parser.token_list[1].ttype = "ELSE" =>
             parse_pc = "raised" /\ parser.exc.type = "ParseError"

\* if (c) if (c) x = 1; else y = 2;  has been parsed
C29_Witness ==
    /\ IsIfChainAt(0, 1)
    /\ CountOf("IF") = 2
    /\ CountOf("ELSE") = 1
    /\ parse_pc = "returned"
    /\ result.alternative = Absent
    /\ result.consequent.alternative.node = "Assign"

C29_WitnessRaised ==
    /\ IsIfChainAt(1, 2)
    /\ CountOf("ELSE") = CountOf("IF") + 1
    /\ parse_pc = "raised"

(***************************************************************************)
(* Argument lists that may not be empty.                                   *)
(***************************************************************************)
\* `(' directly followed by `)' at positions at, at + 1
EmptyParentheses(at) ==
    /\ Len(parser.token_list) > at + 1
    /\ Types(at, at + 1) = <<"LPAREN", "RPAREN">>

\* C30: every Tilde, Print and Reject node returned by _parse_statement has
\* a non-empty argument list: `x ~ dist();', `print();' and `reject();'
\* raise ParseError, whereas a function application `f()' is accepted with
\* an empty argument list.
C30_NonEmptyArguments ==
    parse_pc # "new" =>
       /\ parse_pc = "returned" /\ result.node = "Tilde" =>
             Len(result.args) >= 1
       /\ parse_pc = "returned" /\ result.node \in {"Print", "Reject"} =>
             Len(result.expressions) >= 1
       /\ parser.token_list[1].ttype \in {"PRINT", "REJECT"}
             /\ EmptyParentheses(2) =>
             parse_pc = "raised" /\ parser.exc.type = "ParseError"
       /\ Len(parser.token_list) > 3
             /\ Types(1, 3) = <<"IDENTIFIER", "TILDE", "IDENTIFIER">>
             /\ EmptyParentheses(4) =>
             parse_pc = "raised" /\ parser.exc.type = "ParseError"
       /\ Len(parser.token_list) = 7
             /\ Types(1, 7) = <<"IDENTIFIER", "ASSIGN", "IDENTIFIER", "LPAREN",
                                "RPAREN", "SEMICOLON", "EOF">> =>
             /\ parse_pc = "returned"
             /\ result.value =
                   FunctionApplication(Variable(parser.token_list[3]),
                                       parser.token_list[5], << >>)

\* x ~ f();  has been rejected at the `)'
C30_Witness ==
    /\ Len(parser.token_list) = 7
    /\ Types(1, 3) = <<"IDENTIFIER", "TILDE", "IDENTIFIER">>
    /\ EmptyParentheses(4)
    /\ parse_pc = "raised"
    /\ Parser_peek(parser).ttype = "RPAREN"

C30_WitnessCall ==
    /\ parse_pc = "returned"
    /\ result.node = "Assign"
    /\ result.value.node = "FunctionApplication"
    /\ result.value.arguments = << >>

C30_WitnessPrint ==
    /\ parser.token_list[1].ttype = "PRINT"
    /\ EmptyParentheses(2)
    /\ parse_pc = "raised"
(***************************************************************************)
(* _parse_function_declaration_or_definition called on the tokens of a     *)
(* function header followed by `;', by a body, or by neither.              *)
(***************************************************************************)
MaxCommas == 2          \* commas between `[' and `]' of a function type
MaxParameters == 2      \* arguments of a declared function

Commas(k) == [i \in 1..k |-> ","]

\* array[,,] <type> and <type>[,,]
ArrayTypeTexts(types) ==
    {<<"a", "r", "r", "a", "y", "[">> \o Commas(k) \o <<"]", " ">> \o type :
        k \in 0..MaxCommas, type \in types}

BracketTypeTexts(types) ==
    {type \o <<"[">> \o Commas(k) \o <<"]">> : k \in 0..MaxCommas, type \in types}

ReturnTypeTexts ==
    {<<"v", "o", "i", "d">>, <<"i", "n", "t">>, <<"r", "e", "a", "l">>, <<"c", "o", "m", "p", "l", "e", "x">>, <<"v", "e", "c", "t", "o", "r">>, <<"r", "o", "w", "_", "v", "e", "c", "t", "o", "r">>,
     <<"m", "a", "t", "r", "i", "x">>, <<"s", "i", "m", "p", "l", "e", "x">>, <<"x">>, <<"a", "r", "r", "a", "y", " ", "r", "e", "a", "l">>, <<"a", "r", "r", "a", "y", "[", " ", "r", "e", "a", "l">>, <<"a", "r", "r", "a", "y", "[", ",", "]">>,
     <<"r", "e", "a", "l", "[">>, <<"r", "e", "a", "l", "[", ",">>}
        \cup ArrayTypeTexts({<<"r", "e", "a", "l">>, <<"v", "e", "c", "t", "o", "r">>, <<"v", "o", "i", "d">>, <<"x">>})
        \cup BracketTypeTexts({<<"r", "e", "a", "l">>, <<"i", "n", "t">>})

ParameterTexts ==
    {<<"i", "n", "t", " ", "n">>, <<"a", "r", "r", "a", "y", "[", ",", "]", " ", "r", "e", "a", "l", " ", "y">>, <<"r", "e", "a", "l", "[", "]", " ", "z">>, <<"s", "i", "m", "p", "l", "e", "x", " ", "s">>, <<"a", "r", "r", "a", "y", "[", "]", " ", "x">>,
     <<"v", "e", "c", "t", "o", "r">>}

ParameterLists ==
    {JoinWith(parameters, <<",", " ">>) :
        parameters \in UNION {[1..n -> ParameterTexts] : n \in 0..MaxParameters}}

FunctionEndings == {<<";">>, <<" ", "{", " ", "r", "e", "t", "u", "r", "n", " ", "n", ";", " ", "}">>, <<" ", "{", " ", "}">>, << >>, <<" ", "x">>}

FunctionSources ==
    {type \o <<" ", "f", "(">> \o parameters \o <<")">> \o ending :
        type \in ReturnTypeTexts, parameters \in ParameterLists,
        ending \in FunctionEndings}

FunctionTokens ==
    {Scanner_scan_tokens(Scanner_init(source)).tokens :
        source \in FunctionSources}

InitFun ==
    /\ scanner = Scanner_init(<< >>)
    /\ scan_pc = "none"
    /\ scan_exc = NoExc
    /\ scan_calls = 0
    /\ parser \in {Parser_init(token_list) : token_list \in FunctionTokens}
    /\ parse_pc = "new"
    /\ turn = 0
    /\ blocks = NoBlocks
    /\ frame = Block(<< >>, << >>)
    /\ result = Absent

\* parser._parse_function_declaration_or_definition()
CallParseFunction ==
    /\ parse_pc = "new"
    /\ scan_pc = "none"
    /\ \E function \in {Parser_parse_function_declaration_or_definition(parser)} :
           /\ parser' = function.p
           /\ parse_pc' = IF Raised(function.p) THEN "raised" ELSE "returned"
           /\ result' = IF Raised(function.p) THEN Absent ELSE function.v
    /\ UNCHANGED <<turn, blocks, frame>>
    /\ UNCHANGED scan_vars

NextFun == CallParseFunction

SpecFun == InitFun /\ [][NextFun]_vars
(***************************************************************************)
(* Properties of the custom-function grammar, checked under SpecFun.  The  *)
(* types, arguments and ending are read off the token list by position.    *)
(***************************************************************************)
BasicTypeNames == {"INT", "REAL", "COMPLEX", "VECTOR", "ROWVECTOR", "MATRIX"}

\* the number of commas in a row from position at on
RECURSIVE CommasFrom(_)
CommasFrom(at) == IF TypeAt(at) = "COMMA" THEN 1 + CommasFrom(at + 1) ELSE 0

NoType == [raised |-> TRUE, dtype |-> "", n_dims |-> 0, current |-> 0]

TypeIs(dtype, n_dims, current) ==
    [raised |-> FALSE, dtype |-> dtype, n_dims |-> n_dims, current |-> current]

\* the function type written at position at
TypeWritten(at) ==
    LET commas == CommasFrom(at + 2)
    IN  IF TypeAt(at) \notin {"VOID", "ARRAY"} \cup BasicTypeNames THEN NoType
        ELSE IF TypeAt(at) = "ARRAY"
        THEN IF TypeAt(at + 1) # "LBRACK" THEN NoType
             ELSE IF TypeAt(at + 2 + commas) # "RBRACK" THEN NoType
             ELSE IF TypeAt(at + 3 + commas) \notin BasicTypeNames THEN NoType
             ELSE TypeIs(TypeAt(at + 3 + commas), 1 + commas, at + 4 + commas)
        ELSE IF TypeAt(at + 1) # "LBRACK" THEN TypeIs(TypeAt(at), 0, at + 1)
        ELSE IF TypeAt(at + 2 + commas) # "RBRACK" THEN NoType
        ELSE TypeIs(TypeAt(at), 1 + commas, at + 3 + commas)

\* <type> identifier (`,' <type> identifier)* from position at on
RECURSIVE ParametersWritten(_, _)
ParametersWritten(at, so_far) ==
    LET type == TypeWritten(at)
    IN  IF type.raised THEN Rejected
        ELSE IF TypeAt(type.current) # "IDENTIFIER" THEN Rejected
        ELSE LET args ==
                   Append(so_far,
                          [node |-> "ArgumentDeclaration",
                           dtype |-> type.dtype, n_dims |-> type.n_dims,
                           identifier |-> parser.token_list[type.current + 1]])
             IN  IF TypeAt(type.current + 1) = "COMMA"
                 THEN ParametersWritten(type.current + 2, args)
                 ELSE Accepted(args, type.current + 1)

\* what follows the `)' at position at: `;' or a block
EndingWritten(header, at) ==
    IF TypeAt(at) = "SEMICOLON" THEN Accepted(header, at + 1)
    ELSE IF TypeAt(at) # "LBRACE" THEN Rejected
    ELSE LET body == Parser_parse_block(Cursor(at + 1))
         IN  IF body.raised THEN Rejected
             ELSE Accepted([node |-> "FunctionDefinition", header |-> header,
                            body |-> body.v],
                           body.p.current)

FunctionWritten ==
    LET type == TypeWritten(0)
    IN  IF type.raised THEN Rejected
        ELSE IF TypeAt(type.current) # "IDENTIFIER" THEN Rejected
        ELSE IF TypeAt(type.current + 1) # "LPAREN" THEN Rejected
        ELSE LET args == IF TypeAt(type.current + 2) = "RPAREN"
                         THEN Accepted(<< >>, type.current + 2)
                         ELSE ParametersWritten(type.current + 2, << >>)
             IN  IF args.raised THEN Rejected
                 ELSE IF TypeAt(args.current) # "RPAREN" THEN Rejected
                 ELSE EndingWritten(
                          [node |-> "FunctionDeclaration",
                           return_dtype |->
                               [node |-> "ReturnTypeDeclaration",
                                dtype |-> type.dtype, n_dims |-> type.n_dims],
                           identifier |-> parser.token_list[type.current + 1],
                           args |-> args.v],
                          args.current + 1)

\* C22: a return or argument type starts with `void', `array' or a basic
\* type, otherwise ParseError; `array' is followed by `[', commas, `]' and a
\* basic type, otherwise ParseError; the number of dimensions is 0 without
\* brackets and 1 plus the number of commas otherwise.  After the argument
\* list `;' gives a FunctionDeclaration and a block a FunctionDefinition.
C22_FunctionTypes ==
    parse_pc # "new" => Outcome(FunctionWritten)

\* array[,,] real f(array[,] real y) { ... }  has been parsed
C22_Witness ==
    /\ parse_pc = "returned"
    /\ result.node = "FunctionDefinition"
    /\ result.header.return_dtype.n_dims = 3
    /\ result.header.return_dtype.dtype = "REAL"
    /\ Len(result.header.args) = 1
    /\ result.header.args[1].n_dims = 2

C22_WitnessDeclaration ==
    /\ parse_pc = "returned"
    /\ result.node = "FunctionDeclaration"
    /\ result.return_dtype.n_dims = 0
    /\ Len(result.args) = 2

C22_WitnessRaised ==
    /\ TypeAt(0) = "ARRAY"
    /\ parse_pc = "raised"
    /\ parser.exc.message = <<"Expect basic type.">>
(***************************************************************************)
(* The cursor methods and the grammar rules called in any order on one     *)
(* parser over an EOF-terminated token list.  A caller that catches a      *)
(* ParseError goes on with the same parser.                                *)
(***************************************************************************)
MaxTokens == 3          \* tokens before the final EOF

CursorTypes == {"BANG", "SEMICOLON", "IDENTIFIER", "EOF"}

\* Token(ttype, 1, i) for the i-th type, and EOF at the end
TokenList(ttypes) ==
    [i \in 1..(Len(ttypes) + 1) |->
        Token(IF i > Len(ttypes) THEN "EOF" ELSE ttypes[i], 1, i, << >>, None)]

CursorTokens ==
    {TokenList(ttypes) :
        ttypes \in UNION {[1..n -> CursorTypes] : n \in 0..MaxTokens}}

\* the ttypes a caller asks for
RequestedTypes == SUBSET CursorTypes

CalledRules == {"_parse_expression", "_parse_statement"}

InitCursor ==
    /\ scanner = Scanner_init(<< >>)
    /\ scan_pc = "none"
    /\ scan_exc = NoExc
    /\ scan_calls = 0
    /\ parser \in {Parser_init(token_list) : token_list \in CursorTokens}
    /\ parse_pc = "new"
    /\ turn = 0
    /\ blocks = NoBlocks
    /\ frame = Block(<< >>, << >>)
    /\ result = Absent

\* the parser as the next call finds it: an exception raised by the call
\* before has been caught
Caught(p) == [p EXCEPT !.exc = NoExc]

\* the value a call returned: True or False, a token, or a node of the tree
ReturnedBool(value) == [node |-> "bool", bool |-> value]

ReturnedToken(token) == [node |-> "Token", token |-> token]

Calling == parse_pc \in {"new", "returned", "raised"} /\ scan_pc = "none"

After(p, returned) ==
    /\ parser' = p
    /\ parse_pc' = IF Raised(p) THEN "raised" ELSE "returned"
    /\ result' = IF Raised(p) THEN Absent ELSE returned
    /\ UNCHANGED <<turn, blocks, frame>>
    /\ UNCHANGED scan_vars

\* parser._pop_token()
CallPopToken ==
    /\ Calling
    /\ After(Parser_pop_token(Caught(parser)),
             ReturnedToken(Parser_peek(parser)))

\* parser._match_any(*ttypes)
CallMatchAnyOf(ttypes) ==
    /\ Calling
    /\ \E call \in {Parser_match_any(Caught(parser), ttypes)} :
           After(call.p, ReturnedBool(call.v))

CallMatchAny == \E ttypes \in RequestedTypes : CallMatchAnyOf(ttypes)

\* parser._consume_any(ttypes, "some message")
CallConsumeAnyOf(ttypes) ==
    /\ Calling
    /\ \E call \in {Parser_consume_any(Caught(parser), ttypes,
                                         <<"some message">>)} :
           After(call.p, ReturnedToken(call.v))

CallConsumeAny == \E ttypes \in RequestedTypes : CallConsumeAnyOf(ttypes)

\* parser._consume(ttype)
CallConsumeOf(ttype) ==
    /\ Calling
    /\ \E call \in {Parser_consume(Caught(parser), ttype, Expected(ttype))} :
           After(call.p, ReturnedToken(call.v))

CallConsume == \E ttype \in CursorTypes : CallConsumeOf(ttype)

\* a grammar rule
CallRule ==
    /\ Calling
    /\ \E method \in CalledRules :
           \E call \in {Parser_self(method, Caught(parser))} :
               After(call.p, call.v)

NextCursor ==
    \/ CallPopToken
    \/ CallMatchAny
    \/ CallConsumeAny
    \/ CallConsume
    \/ CallRule

SpecCursor == InitCursor /\ [][NextCursor]_vars
(***************************************************************************)
(* Properties of the cursor, checked under SpecCursor.                     *)
(***************************************************************************)
\* the 0-based index of the first EOF token
FirstEOF ==
    CHOOSE i \in 0..(Len(parser.token_list) - 1) :
        /\ parser.token_list[i + 1].ttype = "EOF"
        /\ \A j \in 0..(i - 1) : parser.token_list[j + 1].ttype # "EOF"

Current == parser.token_list[parser.current + 1]

\* the call returned the current token and moved the cursor one on
Consumed ==
    /\ parse_pc' = "returned"
    /\ result' = ReturnedToken(Current)
    /\ parser'.current = parser.current + 1

\* the call raised ParseError for the current token and the cursor stayed
Refused ==
    /\ parse_pc' = "raised"
    /\ parser'.exc.type = "ParseError"
    /\ parser'.exc.line = Current.line
    /\ parser'.current = parser.current

\* C23: _consume and _consume_any return the current token and advance the
\* cursor by exactly one when the current token is not EOF and its type is
\* among the requested types; in every other case (type mismatch, empty
\* type list, cursor at EOF even if EOF is requested) they raise ParseError
\* and leave the cursor unchanged.
C23_Consume ==
    [][ /\ \A ttypes \in RequestedTypes :
              CallConsumeAnyOf(ttypes) =>
                  IF Current.ttype # "EOF" /\ Current.ttype \in ttypes
                  THEN Consumed ELSE Refused
        /\ \A ttype \in CursorTypes :
              CallConsumeOf(ttype) =>
                  IF Current.ttype # "EOF" /\ Current.ttype = ttype
                  THEN Consumed ELSE Refused ]_vars

\* _consume_any([EOF, ...]) has raised with the cursor at EOF
C23_Witness ==
    /\ parse_pc = "raised"
    /\ parser.exc.message = <<"some message">>
    /\ Current.ttype = "EOF"
    /\ parser.current = MaxTokens

C23_WitnessConsumed ==
    /\ parse_pc = "returned"
    /\ parser.current = 2
    /\ result = ReturnedToken(parser.token_list[2])

\* C24: the parser never backtracks: the cursor never decreases, a consuming
\* step advances it by exactly one, and it never moves past the index of
\* the first EOF token (_pop_token at EOF returns the EOF token and leaves
\* the cursor unchanged).
C24_NoBacktracking ==
    /\ [](parser.current <= FirstEOF)
    /\ [][parser'.current >= parser.current]_vars
    /\ [][CallPopToken \/ CallMatchAny \/ CallConsumeAny \/ CallConsume =>
             parser'.current \in {parser.current, parser.current + 1}]_vars
    /\ [][CallPopToken =>
             /\ result' = ReturnedToken(Current)
             /\ parser'.current =
                   IF Current.ttype = "EOF" THEN parser.current
                   ELSE parser.current + 1]_vars

\* a rule has consumed several tokens up to the first EOF, which is not the
\* last token of the list
C24_Witness ==
    /\ parse_pc = "returned"
    /\ parser.current = FirstEOF
    /\ FirstEOF = 2
    /\ Len(parser.token_list) = 4
    /\ result.node = "Empty"
====
